---- MODULE Spec2Model ----
(***************************************************************************)
(* A model of the mfni interpreter: the lexer (src/src/lexer.rs), the      *)
(* table-driven shift-reduce parser (src/src/parser.rs) and the            *)
(* interpreter with its environment (src/src/interpreter.rs).              *)
(*                                                                         *)
(* Modelling conventions                                                   *)
(*  - a byte is a one-character string; the zero byte is the symbol NUL;   *)
(*    a line is a sequence of bytes, columns are 0-based as in the code;   *)
(*  - Real (f64) is an exact rational <<n, d>> in lowest terms with d > 0; *)
(*    <<1,0>>, <<-1,0>> and <<0,0>> stand for +inf, -inf and NaN.  Float   *)
(*    rounding and the negative zero are not represented;                  *)
(*  - an identifier (Vec<u8>) is a sequence of bytes;                      *)
(*  - a Rust panic is an explicit outcome (kind "Panic"), never a value.   *)
(***************************************************************************)
EXTENDS Integers, Sequences, FiniteSets, TLC

(***************************************************************************)
(* Real arithmetic                                                         *)
(***************************************************************************)
AbsInt(x) == IF x < 0 THEN -x ELSE x

SignInt(x) == IF x < 0 THEN -1 ELSE IF x > 0 THEN 1 ELSE 0

RECURSIVE Gcd(_, _)
Gcd(a, b) == IF b = 0 THEN a ELSE Gcd(b, a % b)

Norm(n, d) ==
  IF d = 0 THEN <<SignInt(n), 0>>
  ELSE LET g == Gcd(AbsInt(n), AbsInt(d))
           s == IF d < 0 THEN -1 ELSE 1
       IN  <<(s * n) \div g, (s * d) \div g>>

R(n) == <<n, 1>>

NaN == <<0, 0>>

IsNaN(a) == a = NaN

IsFinite(a) == a[2] # 0

\* r == 0.0
IsZero(a) == a[1] = 0 /\ a[2] # 0

RNeg(a) == <<-a[1], a[2]>>

RAdd(a, b) ==
  IF IsFinite(a) /\ IsFinite(b) THEN Norm(a[1] * b[2] + b[1] * a[2], a[2] * b[2])
  ELSE IF IsNaN(a) \/ IsNaN(b) THEN NaN
  ELSE IF ~IsFinite(a) /\ ~IsFinite(b) THEN (IF a = b THEN a ELSE NaN)
  ELSE IF IsFinite(a) THEN b ELSE a

RSub(a, b) == RAdd(a, RNeg(b))

RMul(a, b) == Norm(a[1] * b[1], a[2] * b[2])

RRecip(a) == Norm(a[2], a[1])

RDiv(a, b) ==
  IF ~IsFinite(a) /\ ~IsFinite(b) THEN NaN ELSE RMul(a, RRecip(b))

\* r1 < r2 on f64: false as soon as one side is NaN
RLt(a, b) ==
  IF IsNaN(a) \/ IsNaN(b) THEN FALSE
  ELSE IF IsFinite(a) /\ IsFinite(b) THEN a[1] * b[2] < b[1] * a[2]
  ELSE IF IsFinite(a) THEN b[1] > 0
  ELSE IF IsFinite(b) THEN a[1] < 0
  ELSE a[1] < b[1]

RGt(a, b) == RLt(b, a)

RECURSIVE IntPow(_, _)
IntPow(b, k) == IF k = 0 THEN 1 ELSE b * IntPow(b, k - 1)

\* f64::powf, on the exponents the rationals can follow: an integer exponent
\* of a finite base.  Any other use is outside the model and stops TLC.
RPow(a, b) ==
  CASE IsFinite(a) /\ b[2] = 1 /\ b[1] >= 0 ->
         Norm(IntPow(a[1], b[1]), IntPow(a[2], b[1]))
    [] IsFinite(a) /\ b[2] = 1 /\ b[1] < 0 ->
         Norm(IntPow(a[2], -b[1]), IntPow(a[1], -b[1]))

\* 10.0f64.powi(n)
RPow10(n) == RPow(R(10), R(n))

RFloor(a) == IF IsFinite(a) THEN R(a[1] \div a[2]) ELSE a

RCeil(a) == IF IsFinite(a) THEN R(-((-a[1]) \div a[2])) ELSE a

\* f64::round: half away from zero
RRound(a) ==
  IF ~IsFinite(a) THEN a
  ELSE LET m == (2 * AbsInt(a[1]) + a[2]) \div (2 * a[2])
       IN  R(SignInt(a[1]) * m)

RAbs(a) == <<AbsInt(a[1]), a[2]>>

\* f64::signum: 1.0 for +0.0 and every positive number, NaN for NaN
RSignum(a) == IF IsNaN(a) THEN NaN ELSE IF a[1] < 0 THEN R(-1) ELSE R(1)

(***************************************************************************)
(* Bytes                                                                   *)
(***************************************************************************)
NUL == "NUL"

\* what a read past the end of the slice stands for: the read panics
OOB == "OOB"

Lower == {"a","b","c","d","e","f","g","h","i","j","k","l","m",
          "n","o","p","q","r","s","t","u","v","w","x","y","z"}

Upper == {"A","B","C","D","E","F","G","H","I","J","K","L","M",
          "N","O","P","Q","R","S","T","U","V","W","X","Y","Z"}

DigitSeq == <<"0","1","2","3","4","5","6","7","8","9">>

Digit == {DigitSeq[i] : i \in 1..10}

\* u8::is_ascii_alphabetic
Alphabetic == Lower \cup Upper

\* u8::is_ascii_alphanumeric, or b'_'
IdentTail == Alphabetic \cup Digit \cup {"_"}

\* u8::is_ascii_whitespace: space, \t, \n, form feed, \r
Whitespace == {" ", "\t", "\n", "\f", "\r"}

\* the closure to_digit of read_number
to_digit(c) == (CHOOSE i \in 1..10 : DigitSeq[i] = c) - 1

(***************************************************************************)
(* Tokens (lexer.rs, enum Token).  One record shape for all fifteen kinds: *)
(* id is Token::id(), ident/num/op carry the payload of IDENT, NUM and of  *)
(* MD, PN, CMP; the fields a kind does not have hold a fixed filler.       *)
(***************************************************************************)
Tok(id, ident, num, op) == [id |-> id, ident |-> ident, num |-> num, op |-> op]

IDENT(s) == Tok(0, s, R(0), "")
NUM(r) == Tok(1, <<>>, r, "")
ASSIGN == Tok(2, <<>>, R(0), "")
LPAREN == Tok(3, <<>>, R(0), "")
RPAREN == Tok(4, <<>>, R(0), "")
NOT == Tok(5, <<>>, R(0), "")
EXP == Tok(6, <<>>, R(0), "")
MD(op) == Tok(7, <<>>, R(0), op)
PN(op) == Tok(8, <<>>, R(0), op)
CMP(op) == Tok(9, <<>>, R(0), op)
OR == Tok(10, <<>>, R(0), "")
AND == Tok(11, <<>>, R(0), "")
COND == Tok(12, <<>>, R(0), "")
COLON == Tok(13, <<>>, R(0), "")
COMMA == Tok(14, <<>>, R(0), "")

\* CompareOp::on
CompareOn(op, r1, r2) ==
  IF RGt(r1, r2) THEN
    (IF op \in {"GT", "GE", "NE", "CMP"} THEN R(1) ELSE R(0))
  ELSE IF RLt(r1, r2) THEN
    (IF op \in {"LT", "LE", "NE"} THEN R(1)
     ELSE IF op = "CMP" THEN R(-1) ELSE R(0))
  ELSE
    (IF op \in {"GE", "LE", "EQ"} THEN R(1) ELSE R(0))

(***************************************************************************)
(* Lexer                                                                   *)
(***************************************************************************)
\* Lexer::cur: self.line[self.column]; the index panics when out of bounds
Cur(line, column) == IF column < Len(line) THEN line[column + 1] ELSE OOB

\* a loop `while class(self.cur()) { self.eat() }`: the column it stops at
RECURSIVE ScanWhile(_, _, _)
ScanWhile(line, column, class) ==
  IF Cur(line, column) \in class THEN ScanWhile(line, column + 1, class)
  ELSE column

\* skip_whitespace stepping over the zero byte as over a space
skip_whitespace_over_zero(line, column) ==
  ScanWhile(line, column, Whitespace \cup {NUL})

\* Lexer::skip_whitespace
skip_whitespace(line, column) == ScanWhile(line, column, Whitespace)

\* outcomes of tokenize: Ok(TokenStream), Err(InvalidToken), or a panic
LexOk(tokens, complete) ==
  [kind |-> "Ok", tokens |-> tokens, complete |-> complete,
   column |-> 0, expect |-> "", found |-> ""]

LexPanic ==
  [kind |-> "Panic", tokens |-> <<>>, complete |-> TRUE,
   column |-> 0, expect |-> "", found |-> ""]

\* Lexer::err: the column is the current one, found is the byte there
LexErr(line, column, expect) ==
  IF column >= Len(line) THEN LexPanic
  ELSE [kind |-> "Err", tokens |-> <<>>, complete |-> TRUE,
        column |-> column, expect |-> expect,
        found |-> IF line[column + 1] = NUL THEN "end of command"
                  ELSE line[column + 1]]

\* Lexer::push: the token with the column the lexer began it at
Push(tokens, begin, token) == Append(tokens, [column |-> begin, token |-> token])

\* the accumulation `num *= 10.0; num += digit` over the digits ds
RECURSIVE AccDigits(_, _)
AccDigits(ds, acc) ==
  IF ds = <<>> THEN acc
  ELSE AccDigits(Tail(ds), RAdd(RMul(acc, R(10)), R(to_digit(Head(ds)))))

\* the accumulation `div *= 0.1; num2 += digit * div` over the digits ds
RECURSIVE AccFraction(_, _, _)
AccFraction(ds, div, acc) ==
  IF ds = <<>> THEN acc
  ELSE LET d == RMul(div, Norm(1, 10))
       IN  AccFraction(Tail(ds), d, RAdd(acc, RMul(R(to_digit(Head(ds))), d)))

\* the i32 accumulation `n *= 10; n += digit` of the exponent
RECURSIVE AccInt(_, _)
AccInt(ds, acc) ==
  IF ds = <<>> THEN acc ELSE AccInt(Tail(ds), acc * 10 + to_digit(Head(ds)))

Bytes(line, from, to) == SubSeq(line, from + 1, to)

\* Lexer::read_number, started at column begin on a digit.
\* [kind, column, num]: kind "Ok" (column after the number), "Err" (the
\* "number index part" error at column) or "Panic" (a read out of bounds).
read_number(line, begin) ==
  LET c1 == ScanWhile(line, begin, Digit)
      int == AccDigits(Bytes(line, begin, c1), R(0))
      hasFrac == Cur(line, c1) = "."
      c2 == IF hasFrac THEN ScanWhile(line, c1 + 1, Digit) ELSE c1
      num == IF hasFrac
             THEN RAdd(int, AccFraction(Bytes(line, c1 + 1, c2), R(1), R(0)))
             ELSE int
      hasExp == Cur(line, c2) \in {"e", "E"}
      c3 == c2 + 1
      neg == Cur(line, c3) = "-"
      c4 == IF Cur(line, c3) \in {"-", "+"} THEN c3 + 1 ELSE c3
      c5 == ScanWhile(line, c4, Digit)
      n == AccInt(Bytes(line, c4, c5), 0)
  IN  IF c1 >= Len(line) \/ c2 >= Len(line)
        THEN [kind |-> "Panic", column |-> 0, num |-> R(0)]
      ELSE IF ~hasExp THEN [kind |-> "Ok", column |-> c2, num |-> num]
      ELSE IF c3 >= Len(line) \/ c4 >= Len(line)
        THEN [kind |-> "Panic", column |-> 0, num |-> R(0)]
      ELSE IF Cur(line, c4) \notin Digit
        THEN [kind |-> "Err", column |-> c4, num |-> R(0)]
      ELSE IF c5 >= Len(line)
        THEN [kind |-> "Panic", column |-> 0, num |-> R(0)]
      ELSE [kind |-> "Ok", column |-> c5,
            num |-> RMul(num, RPow10(IF neg THEN -n ELSE n))]

\* the one-byte tokens of tokenize's match
Single(c) ==
  CASE c = "(" -> LPAREN
    [] c = ")" -> RPAREN
    [] c = "^" -> EXP
    [] c = "*" -> MD("MUL")
    [] c = "/" -> MD("DIV")
    [] c = "+" -> PN("ADD")
    [] c = "-" -> PN("SUB")
    [] c = "?" -> COND
    [] c = ":" -> COLON
    [] c = "," -> COMMA

SingleBytes == {"(", ")", "^", "*", "/", "+", "-", "?", ":", ","}

\* the loop of Lexer::tokenize, entered with self.column = column
RECURSIVE LexLoop(_, _, _)
LexLoop(line, column, tokens) ==
  LET begin == skip_whitespace(line, column)
      c == Cur(line, begin)
      next == begin + 1
      n == Cur(line, next)
  IN
  IF begin >= Len(line) THEN LexPanic
  ELSE IF c \in Alphabetic \cup {"_"} THEN
    LET stop == ScanWhile(line, next, IdentTail)
    IN  IF stop >= Len(line) THEN LexPanic
        ELSE LexLoop(line, stop, Push(tokens, begin, IDENT(Bytes(line, begin, stop))))
  ELSE IF c \in Digit THEN
    LET r == read_number(line, begin)
    IN  IF r.kind = "Panic" THEN LexPanic
        ELSE IF r.kind = "Err" THEN LexErr(line, r.column, "number index part")
        ELSE LexLoop(line, r.column, Push(tokens, begin, NUM(r.num)))
  ELSE IF c \in SingleBytes THEN
    LexLoop(line, next, Push(tokens, begin, Single(c)))
  ELSE IF c = NUL THEN LexOk(tokens, TRUE)
  ELSE IF c \in {"=", "!", ">", "<", "|", "&", "."} /\ next >= Len(line) THEN
    LexPanic
  ELSE IF c = "=" THEN
    IF n = "=" THEN LexLoop(line, next + 1, Push(tokens, begin, CMP("EQ")))
    ELSE LexLoop(line, next, Push(tokens, begin, ASSIGN))
  ELSE IF c = "!" THEN
    IF n = "=" THEN LexLoop(line, next + 1, Push(tokens, begin, CMP("NE")))
    ELSE LexLoop(line, next, Push(tokens, begin, NOT))
  ELSE IF c = ">" THEN
    IF n = "=" THEN LexLoop(line, next + 1, Push(tokens, begin, CMP("GE")))
    ELSE LexLoop(line, next, Push(tokens, begin, CMP("GT")))
  ELSE IF c = "<" THEN
    IF n = "=" THEN
      \* after "<=" the byte at next + 1 is read; on '>' the CMP token is
      \* pushed and then, with no else, the LE token as well
      IF next + 1 >= Len(line) THEN LexPanic
      ELSE IF Cur(line, next + 1) = ">" THEN
        LexLoop(line, next + 2,
                Push(Push(tokens, begin, CMP("CMP")), begin, CMP("LE")))
      ELSE LexLoop(line, next + 1, Push(tokens, begin, CMP("LE")))
    ELSE LexLoop(line, next, Push(tokens, begin, CMP("LT")))
  ELSE IF c = "|" THEN
    IF n = "|" THEN LexLoop(line, next + 1, Push(tokens, begin, OR))
    ELSE LexErr(line, next, "logical 'or' operator")
  ELSE IF c = "&" THEN
    IF n = "&" THEN LexLoop(line, next + 1, Push(tokens, begin, AND))
    ELSE LexErr(line, next, "logical 'and' operator")
  ELSE IF c = "." THEN
    IF n = "." THEN
      IF next + 1 >= Len(line) THEN LexPanic
      ELSE IF Cur(line, next + 1) = "." THEN LexOk(tokens, FALSE)
      ELSE LexErr(line, next + 1, "wrap ('...') token")
    ELSE LexErr(line, next, "wrap ('...') token")
  ELSE LexErr(line, next, "a valid token")

\* Lexer::new(line).tokenize()
tokenize(line) == LexLoop(line, 0, <<>>)

(***************************************************************************)
(* Parser                                                                  *)
(***************************************************************************)
\* ASTNode::Leaf(token) and ASTNode::Inner(id, children)
Leaf(token) == [leaf |-> TRUE, id |-> 0, children |-> <<>>, token |-> token]

Inner(id, children) ==
  [leaf |-> FALSE, id |-> id, children |-> children, token |-> ASSIGN]

\* Parser::new
ParserNew == [stack |-> <<>>, top |-> 0, nodes |-> <<>>]

\* Parser::ACTION (a reserved word here), rows by state, columns by Token::id():
\*   i  n  =  (  )  !  ^  m  p  c  o  a  ?  :  ,
ActionTable ==
  <<<<  3,   4,   0,   5,   0,   6,   0,   0,   7,   0,   0,   0,   0,   0,   0>>,
    <<  0,   0,   0,   0,   0,   0,   0,   0,   0,   0,   0,   0,   0,   0,   0>>,
    <<  0,   0,   0,   0,   0,   0,   8,   9,  10,  11,  12,  13,  14,   0,   0>>,
    <<  0,   0,  15,  16,   0,   0, -18, -18, -18, -18, -18, -18, -18,  17,   0>>,
    <<  0,   0,   0,   0, -19,   0, -19, -19, -19, -19, -19, -19, -19, -19, -19>>,
    << 19,   4,   0,   5,   0,   6,   0,   0,   7,   0,   0,   0,   0,   0,   0>>,
    << 19,   4,   0,   5,   0,   6,   0,   0,   7,   0,   0,   0,   0,   0,   0>>,
    << 19,   4,   0,   5,   0,   6,   0,   0,   7,   0,   0,   0,   0,   0,   0>>,
    << 19,   4,   0,   5,   0,   6,   0,   0,   7,   0,   0,   0,   0,   0,   0>>,
    << 19,   4,   0,   5,   0,   6,   0,   0,   7,   0,   0,   0,   0,   0,   0>>,
    << 19,   4,   0,   5,   0,   6,   0,   0,   7,   0,   0,   0,   0,   0,   0>>,
    << 19,   4,   0,   5,   0,   6,   0,   0,   7,   0,   0,   0,   0,   0,   0>>,
    << 19,   4,   0,   5,   0,   6,   0,   0,   7,   0,   0,   0,   0,   0,   0>>,
    << 19,   4,   0,   5,   0,   6,   0,   0,   7,   0,   0,   0,   0,   0,   0>>,
    << 19,   4,   0,   5,   0,   6,   0,   0,   7,   0,   0,   0,   0,   0,   0>>,
    << 19,   4,   0,   5,   0,   6,   0,   0,   7,   0,   0,   0,   0,   0,   0>>,
    << 19,   4,   0,   5,   0,   6,   0,   0,   7,   0,   0,   0,   0,   0,   0>>,
    << 33,   0,   0,   0,   0,   0,   0,   0,   0,   0,   0,   0,   0,   0,   0>>,
    <<  0,   0,   0,   0,  34,   0,   8,   9,  10,  11,  12,  13,  14,   0,   0>>,
    <<  0,   0,   0,  16, -18,   0, -18, -18, -18, -18, -18, -18, -18, -18, -18>>,
    <<  0,   0,   0,   0,  -8,   0,  -8,  -8,  -8,  -8,  -8,  -8,  -8,  -8,  -8>>,
    <<  0,   0,   0,   0,  -9,   0,  -9,  -9,  -9,  -9,  -9,  -9,  -9,  -9,  -9>>,
    <<  0,   0,   0,   0, -10,   0, -10, -10, -10, -10, -10, -10, -10, -10, -10>>,
    <<  0,   0,   0,   0, -11,   0,   8, -11, -11, -11, -11, -11, -11, -11, -11>>,
    <<  0,   0,   0,   0, -12,   0,   8,   9, -12, -12, -12, -12, -12, -12, -12>>,
    <<  0,   0,   0,   0, -13,   0,   8,   9,  10, -13, -13, -13, -13, -13, -13>>,
    <<  0,   0,   0,   0, -14,   0,   8,   9,  10,  11, -14, -14, -14, -14, -14>>,
    <<  0,   0,   0,   0, -15,   0,   8,   9,  10,  11,  12, -15, -15, -15, -15>>,
    <<  0,   0,   0,   0,   0,   0,   8,   9,  10,  11,  12,  13,  14,  35,   0>>,
    <<  0,   0,   0,   0,   0,   0,   8,   9,  10,  11,  12,  13,  14,   0,   0>>,
    <<  0,   0,   0,   0, -21,   0,   8,   9,  10,  11,  12,  13,  14,   0, -21>>,
    <<  0,   0,   0,   0,  36,   0,   0,   0,   0,   0,   0,   0,   0,   0,  37>>,
    <<  0,   0,  38,   0,   0,   0,   0,   0,   0,   0,   0,   0,   0,   0,  39>>,
    <<  0,   0,  -6,   0,   0,   0,   0,   0,   0,   0,   0,   0,   0,   0,  -6>>,
    <<  0,   0,   0,   0,  -7,   0,  -7,  -7,  -7,  -7,  -7,  -7,  -7,  -7,  -7>>,
    << 19,   4,   0,   5,   0,   6,   0,   0,   7,   0,   0,   0,   0,   0,   0>>,
    <<  0,   0,   0,   0, -17,   0, -17, -17, -17, -17, -17, -17, -17, -17, -17>>,
    << 19,   4,   0,   5,   0,   6,   0,   0,   7,   0,   0,   0,   0,   0,   0>>,
    << 19,   4,   0,   5,   0,   6,   0,   0,   7,   0,   0,   0,   0,   0,   0>>,
    << 43,   0,   0,   0,   0,   0,   0,   0,   0,   0,   0,   0,   0,   0,   0>>,
    <<  0,   0,   0,   0, -16,   0,   8,   9,  10,  11,  12,  13,  14, -16, -16>>,
    <<  0,   0,   0,   0, -20,   0,   8,   9,  10,  11,  12,  13,  14,   0, -20>>,
    <<  0,   0,   0,   0,   0,   0,   8,   9,  10,  11,  12,  13,  14,   0,   0>>,
    <<  0,   0,  -5,   0,   0,   0,   0,   0,   0,   0,   0,   0,   0,   0,  -5>>>>

\* the length of the right-hand side of rule id (the first match of reduce);
\* 0 stands for the unreachable!() arm
RuleLen(id) ==
  IF id \in {6, 18, 19, 21} THEN 1
  ELSE IF id \in {8, 9} THEN 2
  ELSE IF id \in {3, 5, 7, 10, 11, 12, 13, 14, 15, 20} THEN 3
  ELSE IF id = 17 THEN 4
  ELSE IF id \in {4, 16} THEN 5
  ELSE 0

\* the goto of reduce without the arm of state 5, the open parenthesis
Goto_no_paren(id, k) ==
  IF id >= 7 /\ id < 20 THEN
    IF k >= 6 /\ k < 17 THEN k + 14
    ELSE IF k = 0 THEN 2
    ELSE IF k = 35 THEN 40
    ELSE IF k = 37 THEN 41
    ELSE IF k = 38 THEN 42
    ELSE -1
  ELSE IF id \in {3, 4} THEN (IF k = 0 THEN 1 ELSE -1)
  ELSE IF id \in {5, 6} THEN (IF k = 17 THEN 32 ELSE -1)
  ELSE IF id \in {20, 21} THEN (IF k = 16 THEN 31 ELSE -1)
  ELSE -1

\* the goto of reduce: the state after reducing rule id with state k
\* uncovered; -1 stands for an unreachable!() arm
Goto(id, k) ==
  IF id >= 7 /\ id < 20 THEN
    IF k >= 6 /\ k < 17 THEN k + 14
    ELSE IF k = 0 THEN 2
    ELSE IF k = 5 THEN 18
    ELSE IF k = 35 THEN 40
    ELSE IF k = 37 THEN 41
    ELSE IF k = 38 THEN 42
    ELSE -1
  ELSE IF id \in {3, 4} THEN (IF k = 0 THEN 1 ELSE -1)
  ELSE IF id \in {5, 6} THEN (IF k = 17 THEN 32 ELSE -1)
  ELSE IF id \in {20, 21} THEN (IF k = 16 THEN 31 ELSE -1)
  ELSE -1

\* Parser::reduce collecting the children of the new node last first
reduce_last_first(p, id) ==
  LET len == RuleLen(id)
      sl == Len(p.stack)
      nl == Len(p.nodes)
      stack == SubSeq(p.stack, 1, sl - len)
      node == Inner(id, [i \in 1..len |-> p.nodes[nl + 1 - i]])
      nodes == Append(SubSeq(p.nodes, 1, nl - len), node)
      k == stack[Len(stack)]
  IN  IF len = 0 \/ len > sl \/ len > nl \/ sl - len = 0
        THEN [panic |-> TRUE, state |-> 0, parser |-> p]
      ELSE IF Goto(id, k) < 0
        THEN [panic |-> TRUE, state |-> 0, parser |-> p]
      ELSE [panic |-> FALSE, state |-> Goto(id, k),
            parser |-> [p EXCEPT !.stack = stack, !.nodes = nodes]]

\* Parser::reduce, called with the old top already pushed.
\* [panic, state, parser]: panic when an unreachable!() arm is met, when
\* a length underflows or when the stack is empty under unwrap().
reduce(p, id) ==
  LET len == RuleLen(id)
      sl == Len(p.stack)
      nl == Len(p.nodes)
      stack == SubSeq(p.stack, 1, sl - len)
      node == Inner(id, SubSeq(p.nodes, nl - len + 1, nl))
      nodes == Append(SubSeq(p.nodes, 1, nl - len), node)
      k == stack[Len(stack)]
  IN  IF len = 0 \/ len > sl \/ len > nl \/ sl - len = 0
        THEN [panic |-> TRUE, state |-> 0, parser |-> p]
      ELSE IF Goto(id, k) < 0
        THEN [panic |-> TRUE, state |-> 0, parser |-> p]
      ELSE [panic |-> FALSE, state |-> Goto(id, k),
            parser |-> [p EXCEPT !.stack = stack, !.nodes = nodes]]

\* Parser::action.  [ok, panic, parser]: ok is the returned bool
RECURSIVE action(_, _)
\* Parser::action reducing a sum when a multiply or divide follows it
action_sum_first(p, token) ==
  LET act == IF p.top = 24 /\ token.id = 7 THEN -12
             ELSE ActionTable[p.top + 1][token.id + 1]
      pushed == [p EXCEPT !.stack = Append(p.stack, p.top)]
  IN  IF act > 0 THEN
        [ok |-> TRUE, panic |-> FALSE,
         parser |-> [pushed EXCEPT !.top = act,
                                   !.nodes = Append(pushed.nodes, Leaf(token))]]
      ELSE IF act < 0 THEN
        LET r == reduce(pushed, -act)
        IN  IF r.panic THEN [ok |-> FALSE, panic |-> TRUE, parser |-> r.parser]
            ELSE action([r.parser EXCEPT !.top = r.state], token)
      ELSE [ok |-> FALSE, panic |-> FALSE, parser |-> pushed]

action(p, token) ==
  LET act == ActionTable[p.top + 1][token.id + 1]
      pushed == [p EXCEPT !.stack = Append(p.stack, p.top)]
  IN  IF act > 0 THEN
        [ok |-> TRUE, panic |-> FALSE,
         parser |-> [pushed EXCEPT !.top = act,
                                   !.nodes = Append(pushed.nodes, Leaf(token))]]
      ELSE IF act < 0 THEN
        LET r == reduce(pushed, -act)
        IN  IF r.panic THEN [ok |-> FALSE, panic |-> TRUE, parser |-> r.parser]
            ELSE action([r.parser EXCEPT !.top = r.state], token)
      ELSE [ok |-> FALSE, panic |-> FALSE, parser |-> pushed]

\* the rule accept reduces by in state top; 0 stands for `_ => return None`
AcceptRule(top) ==
  CASE top = 3 -> 18  [] top = 4 -> 19  [] top = 19 -> 18
    [] top = 20 -> 8  [] top = 21 -> 9  [] top = 22 -> 10
    [] top = 23 -> 11 [] top = 24 -> 12 [] top = 25 -> 13
    [] top = 26 -> 14 [] top = 27 -> 15 [] top = 29 -> 3
    [] top = 30 -> 21 [] top = 34 -> 7  [] top = 36 -> 17
    [] top = 40 -> 16 [] top = 42 -> 4
    [] OTHER -> 0

\* Parser::accept.  [some, panic, ast]: Some(ast), None, or a panic
RECURSIVE accept(_)
accept(p) ==
  IF p.top \in {1, 2} THEN
    [some |-> TRUE, panic |-> FALSE, ast |-> Inner(p.top, p.nodes)]
  ELSE IF AcceptRule(p.top) = 0 THEN
    [some |-> FALSE, panic |-> FALSE, ast |-> Inner(0, <<>>)]
  ELSE
    LET r == reduce([p EXCEPT !.stack = Append(p.stack, p.top)],
                    AcceptRule(p.top))
    IN  IF r.panic THEN [some |-> FALSE, panic |-> TRUE, ast |-> Inner(0, <<>>)]
        ELSE accept([r.parser EXCEPT !.top = r.state])

(***************************************************************************)
(* Expression values and functions (interpreter.rs, lines 11-49)           *)
(*                                                                         *)
(* An ExprOrNum is one record: op "Num" is ExprOrNum::Num(r), any other op *)
(* is ExprOrNum::Expr of the Expression variant of that name.  args are    *)
(* the operand ExprOrNums in the order of the variant's fields; cmp is the *)
(* CompareOp of Compare; i the index of Variable; f the Option<Arc<        *)
(* Function>> of Invoke, <<>> for None and <<fn>> for Some(fn).  An Arc    *)
(* points to a Function that is never mutated, so it is the value itself.  *)
(***************************************************************************)
Node(op, r, cmp, i, f, args) ==
  [op |-> op, r |-> r, cmp |-> cmp, i |-> i, f |-> f, args |-> args]

Num(r) == Node("Num", r, "", 0, <<>>, <<>>)

Un(op, a) == Node(op, R(0), "", 0, <<>>, <<a>>)

Bin(op, a, b) == Node(op, R(0), "", 0, <<>>, <<a, b>>)

Compare(cmp, a, b) == Node("Compare", R(0), cmp, 0, <<>>, <<a, b>>)

Condition(c, a, b) == Node("Condition", R(0), "", 0, <<>>, <<c, a, b>>)

Invoke(f, params) == Node("Invoke", R(0), "", 0, f, params)

Variable(i) == Node("Variable", R(0), "", i, <<>>, <<>>)

IsNum(e) == e.op = "Num"

\* Function { incount, fimpl }: lib names the native closure of
\* FunctionImpl::Lib, "" marks FunctionImpl::User(body)
LibFn(incount, lib) == [incount |-> incount, lib |-> lib, body |-> Num(R(0))]

UserFn(incount, body) == [incount |-> incount, lib |-> "", body |-> body]

(***************************************************************************)
(* Evaluation (interpreter.rs, impl Function)                              *)
(*                                                                         *)
(* The outcome of an evaluation is [kind, v]: "Ok" with the number,        *)
(* "Panic" for an index out of bounds, "Overflow" when the recursion       *)
(* exceeds the call stack of the host, which ends the process.             *)
(***************************************************************************)
\* the depth of nested invoke calls the host's stack holds
MaxCallDepth == 8

Val(r) == [kind |-> "Ok", v |-> r]

EvPanic == [kind |-> "Panic", v |-> R(0)]

EvOverflow == [kind |-> "Overflow", v |-> R(0)]

\* the closures Interpreter::new installs, at the arguments where the
\* result is rational; v[0] is args[1].  Elsewhere the model stops.
LibApply(lib, args) ==
  LET x == args[1]
  IN  CASE lib = "abs" -> RAbs(x)
        [] lib = "floor" -> RFloor(x)
        [] lib = "ceil" -> RCeil(x)
        [] lib = "round" -> RRound(x)
        [] lib = "sgn" -> RSignum(x)
        [] lib = "sqrt" /\ x \in {R(0), R(1)} -> x
        [] lib = "sqrt" /\ x = R(4) -> R(2)
        [] lib = "cbrt" /\ x \in {R(0), R(1)} -> x
        [] lib \in {"sin", "tan", "asin", "atan"} /\ x = R(0) -> R(0)
        [] lib = "cos" /\ x = R(0) -> R(1)
        [] lib = "acos" /\ x = R(1) -> R(0)
        [] lib = "atan2" /\ args[2] = R(0) /\ RGt(x, R(0)) -> R(0)
        [] lib \in {"ln", "log"} /\ x = R(1) -> R(0)

\* the binary arithmetic of calc_expr and of the folding in
\* translate_expression
Arith(op, r1, r2) ==
  CASE op = "Exp" -> RPow(r1, r2)
    [] op = "Mul" -> RMul(r1, r2)
    [] op = "Div" -> RDiv(r1, r2)
    [] op = "Add" -> RAdd(r1, r2)
    [] op = "Sub" -> RSub(r1, r2)

Truth(b) == IF b THEN R(1) ELSE R(0)

\* the callee of an Invoke node evaluated by function self:
\* Some(f) => f, None => self
Callee(self, e) == IF e.f = <<>> THEN self ELSE e.f[1]

RECURSIVE invoke(_, _, _)
RECURSIVE calc_expr(_, _, _, _)
RECURSIVE calc_args(_, _, _, _)
RECURSIVE calc_condition(_, _, _, _)

\* the map over the argument expressions of an Invoke node, in order:
\* [kind, v] with v the sequence of values
calc_args(self, es, args, depth) ==
  IF es = <<>> THEN [kind |-> "Ok", v |-> <<>>]
  ELSE LET h == calc_expr(self, Head(es), args, depth)
       IN  IF h.kind # "Ok" THEN h
           ELSE LET t == calc_args(self, Tail(es), args, depth)
                IN  IF t.kind # "Ok" THEN t
                    ELSE [kind |-> "Ok", v |-> <<h.v>> \o t.v]

\* Expression::Condition evaluating both branches before it chooses
calc_condition_strict(self, e, args, depth) ==
  LET c == calc_expr(self, e.args[1], args, depth)
      a == calc_expr(self, e.args[2], args, depth)
      b == calc_expr(self, e.args[3], args, depth)
  IN  IF c.kind # "Ok" THEN c
      ELSE IF a.kind # "Ok" THEN a
      ELSE IF b.kind # "Ok" THEN b
      ELSE IF ~IsZero(c.v) THEN a ELSE b

\* Expression::Condition choosing the first branch whatever the condition
calc_condition_first(self, e, args, depth) ==
  LET c == calc_expr(self, e.args[1], args, depth)
  IN  IF c.kind # "Ok" THEN c
      ELSE calc_expr(self, e.args[2], args, depth)

\* Expression::Condition: the condition, then one branch
calc_condition(self, e, args, depth) ==
  LET c == calc_expr(self, e.args[1], args, depth)
  IN  IF c.kind # "Ok" THEN c
      ELSE IF ~IsZero(c.v) THEN calc_expr(self, e.args[2], args, depth)
      ELSE calc_expr(self, e.args[3], args, depth)

\* Function::calc_expr_or_num and Function::calc_expr
calc_expr(self, e, args, depth) ==
  IF e.op = "Num" THEN Val(e.r)
  ELSE IF e.op = "Variable" THEN
    (IF e.i < Len(args) THEN Val(args[e.i + 1]) ELSE EvPanic)
  ELSE IF e.op = "Condition" THEN calc_condition(self, e, args, depth)
  ELSE IF e.op = "Invoke" THEN
    LET a == calc_args(self, e.args, args, depth)
    IN  IF a.kind # "Ok" THEN [kind |-> a.kind, v |-> R(0)]
        ELSE invoke(Callee(self, e), a.v, depth + 1)
  ELSE
    LET a == calc_expr(self, e.args[1], args, depth)
    IN  IF a.kind # "Ok" THEN a
        ELSE IF e.op = "Not" THEN Val(Truth(IsZero(a.v)))
        ELSE IF e.op = "Neg" THEN Val(RNeg(a.v))
        \* Rust's || and && skip the right operand once the left decides
        ELSE IF e.op = "Or" /\ ~IsZero(a.v) THEN Val(R(1))
        ELSE IF e.op = "And" /\ IsZero(a.v) THEN Val(R(0))
        ELSE
          LET b == calc_expr(self, e.args[2], args, depth)
          IN  IF b.kind # "Ok" THEN b
              ELSE IF e.op \in {"Or", "And"} THEN Val(Truth(~IsZero(b.v)))
              ELSE IF e.op = "Compare" THEN Val(CompareOn(e.cmp, a.v, b.v))
              ELSE Val(Arith(e.op, a.v, b.v))

\* Function::invoke, entered at the given depth of nested invocations
invoke(f, args, depth) ==
  IF depth > MaxCallDepth THEN EvOverflow
  ELSE IF f.lib # "" THEN
    (IF Len(args) < f.incount THEN EvPanic ELSE Val(LibApply(f.lib, args)))
  ELSE calc_expr(f, f.body, args, depth)

(***************************************************************************)
(* Interpreter: errors, environment                                        *)
(***************************************************************************)
\* InputError, one record shape: type names the variant; InvalidToken
\* carries column, expect and found, SyntaxError the column, the four
\* others the identifier
InputError(type, ident, column, expect, found) ==
  [type |-> type, ident |-> ident, column |-> column,
   expect |-> expect, found |-> found]

NoError == InputError("", <<>>, 0, "", "")

InvalidToken(e) == InputError("InvalidToken", <<>>, e.column, e.expect, e.found)

SyntaxError(column) == InputError("SyntaxError", <<>>, column, "", "")

RepeatVariable(ident) == InputError("RepeatVariable", ident, 0, "", "")

UndefinedIdentifier(ident) == InputError("UndefinedIdentifier", ident, 0, "", "")

BuiltinIdentifier(ident) == InputError("BuiltinIdentifier", ident, 0, "", "")

InconsistentVariablesCount(ident) ==
  InputError("InconsistentVariablesCount", ident, 0, "", "")

\* a body with every reference to the function object old replaced by new
RECURSIVE Rebind(_, _, _)
Rebind(e, old, new) ==
  [e EXCEPT !.f = IF @ = <<old>> THEN <<new>> ELSE @,
            !.args = [i \in DOMAIN @ |-> Rebind(@[i], old, new)]]

\* HashMap::insert that overwrites the function object in place, so that
\* the call sites holding the old object see the new one
Insert_in_place(map, key, val) ==
  [k \in DOMAIN map \cup {key} |->
     IF k = key THEN val
     ELSE IF key \in DOMAIN map /\ "body" \in DOMAIN map[k]
       THEN [map[k] EXCEPT !.body = Rebind(@, map[key], val)]
     ELSE map[k]]

\* HashMap::insert
Insert(map, key, val) ==
  [k \in DOMAIN map \cup {key} |-> IF k = key THEN val ELSE map[k]]

\* the entries of the value table: (builtin, value)
Entry(builtin, value) == [builtin |-> builtin, value |-> value]

\* is_builtin_value that protects nothing
is_builtin_value_never(st, ident) == FALSE

\* Interpreter::is_builtin_value
is_builtin_value(st, ident) ==
  IF ident \in DOMAIN st.values THEN st.values[ident].builtin ELSE FALSE

\* is_builtin that looks at the value table only
is_builtin_values_only(st, ident) == is_builtin_value(st, ident)

\* Interpreter::is_builtin
is_builtin(st, ident) ==
  \/ is_builtin_value(st, ident)
  \/ IF ident \in DOMAIN st.functions THEN st.functions[ident].lib # ""
     ELSE FALSE

(***************************************************************************)
(* Interpreter: translation of expressions                                 *)
(*                                                                         *)
(* A translation ends [kind, val, err]: "Ok" with the ExprOrNum, "Err"     *)
(* with the InputError, "Panic", or "Overflow" when a folded call exceeds  *)
(* the call stack.                                                         *)
(***************************************************************************)
TOk(val) == [kind |-> "Ok", val |-> val, err |-> NoError]

TErr(err) == [kind |-> "Err", val |-> Num(R(0)), err |-> err]

TPanic == [kind |-> "Panic", val |-> Num(R(0)), err |-> NoError]

TOverflow == [kind |-> "Overflow", val |-> Num(R(0)), err |-> NoError]

\* the outcome of an evaluation, as the constant a folded call becomes
TFold(ev) ==
  IF ev.kind = "Ok" THEN TOk(Num(ev.v))
  ELSE IF ev.kind = "Panic" THEN TPanic ELSE TOverflow

\* the k-th child from the end: the node the (k+1)-th children.pop() yields
FromEnd(children, k) == children[Len(children) - k]

IsLeafOf(node, ids) == node.leaf /\ node.token.id \in ids

\* rules 8 and 9: `!` and the unary sign over a translated operand
FoldUnary(id, sign, ex) ==
  IF id = 8 THEN
    (IF IsNum(ex) THEN Num(Truth(IsZero(ex.r))) ELSE Un("Not", ex))
  ELSE IF sign.op = "ADD" THEN ex
  ELSE IF IsNum(ex) THEN Num(RNeg(ex.r)) ELSE Un("Neg", ex)

\* the Expression variant of a binary rule with its operator token
BinaryOp(id, token) ==
  CASE id = 10 -> "Exp"
    [] id = 11 -> (IF token.op = "MUL" THEN "Mul" ELSE "Div")
    [] id = 12 -> (IF token.op = "ADD" THEN "Add" ELSE "Sub")
    [] id = 13 -> "Compare"
    [] id = 14 -> "Or"
    [] id = 15 -> "And"

\* rules 10 to 15 folding two constants with the operands exchanged
FoldBinary_exchanged(id, token, ex1, ex2) ==
  LET op == BinaryOp(id, token)
  IN  IF IsNum(ex1) /\ IsNum(ex2) THEN
        Num(CASE op = "Compare" -> CompareOn(token.op, ex2.r, ex1.r)
              [] op = "Or" -> Truth(~IsZero(ex1.r) \/ ~IsZero(ex2.r))
              [] op = "And" -> Truth(~IsZero(ex1.r) /\ ~IsZero(ex2.r))
              [] OTHER -> Arith(op, ex2.r, ex1.r))
      ELSE IF op = "Compare" THEN Compare(token.op, ex1, ex2)
      ELSE Bin(op, ex1, ex2)

\* rules 10 to 15: two constants fold, anything else builds the node
FoldBinary(id, token, ex1, ex2) ==
  LET op == BinaryOp(id, token)
  IN  IF IsNum(ex1) /\ IsNum(ex2) THEN
        Num(CASE op = "Compare" -> CompareOn(token.op, ex1.r, ex2.r)
              [] op = "Or" -> Truth(~IsZero(ex1.r) \/ ~IsZero(ex2.r))
              [] op = "And" -> Truth(~IsZero(ex1.r) /\ ~IsZero(ex2.r))
              [] OTHER -> Arith(op, ex1.r, ex2.r))
      ELSE IF op = "Compare" THEN Compare(token.op, ex1, ex2)
      ELSE Bin(op, ex1, ex2)

\* rule 16 once the condition and both branches are translated
FoldCondition(cond, ex1, ex2) ==
  IF IsNum(cond) THEN (IF ~IsZero(cond.r) THEN ex1 ELSE ex2)
  ELSE Condition(cond, ex1, ex2)

\* cur_variables.iter().position(|v| *v == ident): 0 when there is none,
\* else the 1-based position
Position(variables, ident) ==
  IF \E i \in 1..Len(variables) : variables[i] = ident
  THEN CHOOSE i \in 1..Len(variables) :
         /\ variables[i] = ident
         /\ \A j \in 1..(i - 1) : variables[j] # ident
  ELSE 0

\* rule 18 numbering the parameters from the last one
translate_ident_from_end(st, ident) ==
  IF Position(st.cur_variables, ident) > 0
    THEN TOk(Variable(Len(st.cur_variables) - Position(st.cur_variables, ident)))
  ELSE IF ident \in DOMAIN st.values THEN TOk(Num(st.values[ident].value))
  ELSE TErr(UndefinedIdentifier(ident))

\* rule 18 reading every global value as zero
translate_ident_zero(st, ident) ==
  IF Position(st.cur_variables, ident) > 0
    THEN TOk(Variable(Position(st.cur_variables, ident) - 1))
  ELSE IF ident \in DOMAIN st.values THEN TOk(Num(R(0)))
  ELSE TErr(UndefinedIdentifier(ident))

\* rule 18: a parameter of the definition, else a global value
translate_ident(st, ident) ==
  IF Position(st.cur_variables, ident) > 0
    THEN TOk(Variable(Position(st.cur_variables, ident) - 1))
  ELSE IF ident \in DOMAIN st.values THEN TOk(Num(st.values[ident].value))
  ELSE TErr(UndefinedIdentifier(ident))

\* rule 17 once the arguments are translated
translate_call(st, ident, params) ==
  IF ident = st.cur_ident THEN
    IF Len(params) # Len(st.cur_variables)
      THEN TErr(InconsistentVariablesCount(ident))
    ELSE TOk(Invoke(<<>>, params))
  ELSE IF ident \in DOMAIN st.functions THEN
    LET f == st.functions[ident]
    IN  IF Len(params) # f.incount
          THEN TErr(InconsistentVariablesCount(ident))
        ELSE IF \A i \in 1..Len(params) : IsNum(params[i])
          THEN TFold(invoke(f, [i \in 1..Len(params) |-> params[i].r], 1))
        ELSE TOk(Invoke(<<f>>, params))
  ELSE TErr(UndefinedIdentifier(ident))

RECURSIVE translate_expression(_, _)
RECURSIVE translate_parameter_list(_, _, _)

\* Interpreter::translate_parameter_list, with the params pushed so far
translate_parameter_list(st, cur, params) ==
  IF cur.leaf \/ cur.id \notin {20, 21} \/ cur.children = <<>> THEN
    [kind |-> "Panic", params |-> <<>>, err |-> NoError]
  ELSE
    LET t == translate_expression(st, FromEnd(cur.children, 0))
    IN  IF t.kind # "Ok" THEN [kind |-> t.kind, params |-> <<>>, err |-> t.err]
        ELSE IF cur.id = 21 THEN
          [kind |-> "Ok", params |-> Append(params, t.val), err |-> NoError]
        ELSE IF Len(cur.children) < 3 THEN
          [kind |-> "Panic", params |-> <<>>, err |-> NoError]
        ELSE translate_parameter_list(st, FromEnd(cur.children, 2),
                                      Append(params, t.val))

\* Interpreter::translate_expression
translate_expression(st, ast) ==
  LET ch == ast.children
      n == Len(ch)
  IN
  IF ast.leaf THEN TPanic
  ELSE IF ast.id = 7 THEN
    (IF n < 2 THEN TPanic ELSE translate_expression(st, FromEnd(ch, 1)))
  ELSE IF ast.id \in {8, 9} THEN
    IF n < 1 \/ (ast.id = 9 /\ n < 2) THEN TPanic
    ELSE LET t == translate_expression(st, FromEnd(ch, 0))
         IN  IF t.kind # "Ok" THEN t
             ELSE IF ast.id = 9 /\ ~IsLeafOf(FromEnd(ch, 1), {8}) THEN TPanic
             ELSE TOk(FoldUnary(ast.id, FromEnd(ch, IF ast.id = 9 THEN 1 ELSE 0).token,
                                t.val))
  ELSE IF ast.id \in 10..15 THEN
    IF n < 3 THEN TPanic
    ELSE LET t2 == translate_expression(st, FromEnd(ch, 0))
         IN  IF t2.kind # "Ok" THEN t2
             ELSE IF /\ ast.id \in {11, 12, 13}
                     /\ ~IsLeafOf(FromEnd(ch, 1), {ast.id - 4}) THEN TPanic
             ELSE LET t1 == translate_expression(st, FromEnd(ch, 2))
                  IN  IF t1.kind # "Ok" THEN t1
                      ELSE TOk(FoldBinary(ast.id, FromEnd(ch, 1).token,
                                          t1.val, t2.val))
  ELSE IF ast.id = 16 THEN
    IF n < 5 THEN TPanic
    ELSE LET t2 == translate_expression(st, FromEnd(ch, 0))
         IN  IF t2.kind # "Ok" THEN t2
             ELSE LET t1 == translate_expression(st, FromEnd(ch, 2))
                  IN  IF t1.kind # "Ok" THEN t1
                      ELSE LET c == translate_expression(st, FromEnd(ch, 4))
                           IN  IF c.kind # "Ok" THEN c
                               ELSE TOk(FoldCondition(c.val, t1.val, t2.val))
  ELSE IF ast.id = 17 THEN
    IF n < 4 THEN TPanic
    ELSE LET ps == translate_parameter_list(st, FromEnd(ch, 1), <<>>)
         IN  IF ps.kind # "Ok"
               THEN [kind |-> ps.kind, val |-> Num(R(0)), err |-> ps.err]
             ELSE IF ~IsLeafOf(FromEnd(ch, 3), {0}) THEN TPanic
             ELSE translate_call(st, FromEnd(ch, 3).token.ident, ps.params)
  ELSE IF ast.id = 18 THEN
    (IF n < 1 \/ ~IsLeafOf(FromEnd(ch, 0), {0}) THEN TPanic
     ELSE translate_ident(st, FromEnd(ch, 0).token.ident))
  ELSE IF ast.id = 19 THEN
    (IF n < 1 \/ ~IsLeafOf(FromEnd(ch, 0), {1}) THEN TPanic
     ELSE TOk(Num(FromEnd(ch, 0).token.num)))
  ELSE TPanic

(***************************************************************************)
(* Interpreter: statements                                                 *)
(*                                                                         *)
(* The state of an Interpreter is the record st of its five fields; parser *)
(* is the Option<Parser>, <<>> for None and <<p>> for Some(p).  A call     *)
(* ends [st, ret]: ret.kind is the InputState returned ("Empty",           *)
(* "Incomplete", "Assignment", "Expression"), "Err" with the InputError,   *)
(* or "Panic"/"Overflow" when the call does not return.                    *)
(***************************************************************************)
Ret(kind) == [kind |-> kind, err |-> NoError]

RetErr(err) == [kind |-> "Err", err |-> err]

\* how a translation that did not end Ok ends the call
RetOf(t) == IF t.kind = "Err" THEN RetErr(t.err) ELSE Ret(t.kind)

\* Interpreter::translate_variable_list, with the variables pushed so far
RECURSIVE translate_variable_list(_, _, _)
translate_variable_list(st, cur, variables) ==
  IF cur.leaf \/ cur.id \notin {5, 6} \/ cur.children = <<>>
     \/ ~IsLeafOf(FromEnd(cur.children, 0), {0}) THEN
    [kind |-> "Panic", variables |-> <<>>, err |-> NoError]
  ELSE
    LET ident == FromEnd(cur.children, 0).token.ident
    IN  IF is_builtin_value(st, ident) THEN
          [kind |-> "Err", variables |-> <<>>, err |-> BuiltinIdentifier(ident)]
        ELSE IF cur.id = 6 THEN
          [kind |-> "Ok", variables |-> Append(variables, ident), err |-> NoError]
        ELSE IF Len(cur.children) < 3 THEN
          [kind |-> "Panic", variables |-> <<>>, err |-> NoError]
        ELSE translate_variable_list(st, FromEnd(cur.children, 2),
                                     Append(variables, ident))

\* variables.iter().rposition(|v| v == var), 1-based
RPosition(variables, var) ==
  CHOOSE i \in 1..Len(variables) :
    /\ variables[i] = var
    /\ \A j \in (i + 1)..Len(variables) : variables[j] # var

\* the loop of translate_ast finding no variable twice
FirstRepeat_never(variables) == <<>>

\* the loop of translate_ast over the variables: the first one that occurs
\* again later, <<>> when there is none
FirstRepeat(variables) ==
  LET bad == {i \in 1..Len(variables) : RPosition(variables, variables[i]) # i}
  IN  IF bad = {} THEN <<>>
      ELSE variables[CHOOSE i \in bad : \A j \in bad : i <= j]

\* rule 3 translating under the parameter list of the last definition
translate_assignment_scoped(st, children) ==
  IF Len(children) < 3 \/ ~IsLeafOf(FromEnd(children, 2), {0}) THEN
    [st |-> st, ret |-> Ret("Panic")]
  ELSE
    LET ident == FromEnd(children, 2).token.ident
        t == translate_expression(st, FromEnd(children, 0))
    IN  IF is_builtin_value(st, ident) THEN
          [st |-> st, ret |-> RetErr(BuiltinIdentifier(ident))]
        ELSE IF t.kind # "Ok" THEN [st |-> st, ret |-> RetOf(t)]
        ELSE IF ~IsNum(t.val) THEN [st |-> st, ret |-> Ret("Panic")]
        ELSE [st |-> [st EXCEPT
                        !.values = Insert(@, ident, Entry(FALSE, t.val.r))],
              ret |-> Ret("Assignment")]

\* translate_ast, rule 3: IDENT '=' expression
translate_assignment(st, children) ==
  IF Len(children) < 3 \/ ~IsLeafOf(FromEnd(children, 2), {0}) THEN
    [st |-> st, ret |-> Ret("Panic")]
  ELSE
    LET ident == FromEnd(children, 2).token.ident
        cleared == [st EXCEPT !.cur_ident = <<>>, !.cur_variables = <<>>]
        t == translate_expression(cleared, FromEnd(children, 0))
    IN  IF is_builtin_value(st, ident) THEN
          [st |-> st, ret |-> RetErr(BuiltinIdentifier(ident))]
        ELSE IF t.kind # "Ok" THEN [st |-> cleared, ret |-> RetOf(t)]
        \* ExprOrNum::assume_num
        ELSE IF ~IsNum(t.val) THEN [st |-> cleared, ret |-> Ret("Panic")]
        ELSE [st |-> [cleared EXCEPT
                        !.values = Insert(@, ident, Entry(FALSE, t.val.r))],
              ret |-> Ret("Assignment")]

\* translate_ast, rule 4: IDENT ':' variable_list '=' expression
translate_definition(st, children) ==
  IF Len(children) < 5 \/ ~IsLeafOf(FromEnd(children, 4), {0}) THEN
    [st |-> st, ret |-> Ret("Panic")]
  ELSE
    LET vl == translate_variable_list(st, FromEnd(children, 2), <<>>)
        ident == FromEnd(children, 4).token.ident
        withVars == [st EXCEPT !.cur_variables = vl.variables]
        ctx == [withVars EXCEPT !.cur_ident = ident]
        t == translate_expression(ctx, FromEnd(children, 0))
    IN  IF vl.kind = "Panic" THEN [st |-> st, ret |-> Ret("Panic")]
        ELSE IF vl.kind = "Err" THEN [st |-> st, ret |-> RetErr(vl.err)]
        ELSE IF FirstRepeat(vl.variables) # <<>> THEN
          [st |-> st, ret |-> RetErr(RepeatVariable(FirstRepeat(vl.variables)))]
        ELSE IF is_builtin(withVars, ident) THEN
          [st |-> withVars, ret |-> RetErr(BuiltinIdentifier(ident))]
        ELSE IF t.kind # "Ok" THEN [st |-> ctx, ret |-> RetOf(t)]
        ELSE [st |-> [ctx EXCEPT
                        !.functions =
                          Insert(@, ident, UserFn(Len(ctx.cur_variables), t.val))],
              ret |-> Ret("Assignment")]

\* rule 2 storing 0 when the expression yields the result already stored
translate_statement_expression_toggle(st, children) ==
  IF children = <<>> THEN [st |-> st, ret |-> Ret("Panic")]
  ELSE
    LET cleared == [st EXCEPT !.cur_ident = <<>>, !.cur_variables = <<>>]
        t == translate_expression(cleared, FromEnd(children, 0))
    IN  IF t.kind # "Ok" THEN [st |-> cleared, ret |-> RetOf(t)]
        ELSE IF ~IsNum(t.val) THEN [st |-> cleared, ret |-> Ret("Panic")]
        ELSE [st |-> [cleared EXCEPT
                        !.values =
                          Insert(@, <<"_">>,
                                 Entry(FALSE,
                                       IF st.values[<<"_">>].value = t.val.r
                                       THEN R(0) ELSE t.val.r))],
              ret |-> Ret("Expression")]

\* rule 2 binding x to the result as well
translate_statement_expression_and_x(st, children) ==
  IF children = <<>> THEN [st |-> st, ret |-> Ret("Panic")]
  ELSE
    LET cleared == [st EXCEPT !.cur_ident = <<>>, !.cur_variables = <<>>]
        t == translate_expression(cleared, FromEnd(children, 0))
    IN  IF t.kind # "Ok" THEN [st |-> cleared, ret |-> RetOf(t)]
        ELSE IF ~IsNum(t.val) THEN [st |-> cleared, ret |-> Ret("Panic")]
        ELSE [st |-> [cleared EXCEPT
                        !.values =
                          Insert(Insert(@, <<"_">>, Entry(FALSE, t.val.r)),
                                 <<"x">>, Entry(FALSE, t.val.r))],
              ret |-> Ret("Expression")]

\* rule 2 storing the result identifier before the expression is known to
\* translate
translate_statement_expression_store(st, children) ==
  IF children = <<>> THEN [st |-> st, ret |-> Ret("Panic")]
  ELSE
    LET cleared == [st EXCEPT !.cur_ident = <<>>, !.cur_variables = <<>>]
        stored == [cleared EXCEPT
                     !.values = Insert(@, <<"_">>, Entry(FALSE, R(0)))]
        t == translate_expression(cleared, FromEnd(children, 0))
    IN  IF t.kind # "Ok" THEN [st |-> stored, ret |-> RetOf(t)]
        ELSE IF ~IsNum(t.val) THEN [st |-> cleared, ret |-> Ret("Panic")]
        ELSE [st |-> [cleared EXCEPT
                        !.values = Insert(@, <<"_">>, Entry(FALSE, t.val.r))],
              ret |-> Ret("Expression")]

\* rule 2 translating under the parameter list of the last definition
translate_statement_expression_scoped(st, children) ==
  IF children = <<>> THEN [st |-> st, ret |-> Ret("Panic")]
  ELSE
    LET t == translate_expression(st, FromEnd(children, 0))
    IN  IF t.kind # "Ok" THEN [st |-> st, ret |-> RetOf(t)]
        ELSE IF ~IsNum(t.val) THEN [st |-> st, ret |-> Ret("Panic")]
        ELSE [st |-> [st EXCEPT
                        !.values = Insert(@, <<"_">>, Entry(FALSE, t.val.r))],
              ret |-> Ret("Expression")]

\* translate_ast, rule 2: a bare expression
translate_statement_expression(st, children) ==
  IF children = <<>> THEN [st |-> st, ret |-> Ret("Panic")]
  ELSE
    LET cleared == [st EXCEPT !.cur_ident = <<>>, !.cur_variables = <<>>]
        t == translate_expression(cleared, FromEnd(children, 0))
    IN  IF t.kind # "Ok" THEN [st |-> cleared, ret |-> RetOf(t)]
        ELSE IF ~IsNum(t.val) THEN [st |-> cleared, ret |-> Ret("Panic")]
        ELSE [st |-> [cleared EXCEPT
                        !.values = Insert(@, <<"_">>, Entry(FALSE, t.val.r))],
              ret |-> Ret("Expression")]

\* Interpreter::translate_ast
translate_ast(st, ast) ==
  IF ~ast.leaf /\ ast.id = 1 /\ ast.children # <<>> THEN
    LET a == FromEnd(ast.children, 0)
    IN  IF ~a.leaf /\ a.id = 3 THEN translate_assignment(st, a.children)
        ELSE IF ~a.leaf /\ a.id = 4 THEN translate_definition(st, a.children)
        ELSE [st |-> st, ret |-> Ret("Panic")]
  ELSE IF ~ast.leaf /\ ast.id = 2 THEN
    translate_statement_expression(st, ast.children)
  ELSE [st |-> st, ret |-> Ret("Panic")]

\* the loop of input over the tokens: [kind, parser, column], kind "Ok",
\* "Reject" (action returned false for the token at column) or "Panic"
RECURSIVE feed(_, _)
feed(p, tokens) ==
  IF tokens = <<>> THEN [kind |-> "Ok", parser |-> p, column |-> 0]
  ELSE LET a == action(p, Head(tokens).token)
       IN  IF a.panic THEN [kind |-> "Panic", parser |-> p, column |-> 0]
           ELSE IF ~a.ok THEN
             [kind |-> "Reject", parser |-> p, column |-> Head(tokens).column]
           ELSE feed(a.parser, Tail(tokens))

\* self.parser.take() without the take: the parser stays where it was
take_keep(st) == st

\* self.parser.take(): the interpreter it leaves behind
take(st) == [st EXCEPT !.parser = <<>>]

\* input answering Empty to every line of no token, a statement pending or not
input_tokens_empty_always(st, ts, len) ==
  IF ts.tokens = <<>> THEN [st |-> take(st), ret |-> Ret("Empty")]
  ELSE
    LET parser == IF st.parser = <<>> THEN ParserNew ELSE st.parser[1]
        fed == feed(parser, ts.tokens)
        acc == accept(fed.parser)
    IN  IF fed.kind = "Panic" THEN [st |-> take(st), ret |-> Ret("Panic")]
        ELSE IF fed.kind = "Reject" THEN
          [st |-> take(st), ret |-> RetErr(SyntaxError(fed.column))]
        ELSE IF ~ts.complete THEN
          [st |-> [take(st) EXCEPT !.parser = <<fed.parser>>],
           ret |-> Ret("Incomplete")]
        ELSE IF acc.panic THEN [st |-> take(st), ret |-> Ret("Panic")]
        ELSE IF acc.some THEN translate_ast(take(st), acc.ast)
        ELSE [st |-> take(st), ret |-> RetErr(SyntaxError(len))]

\* input keeping the pending parser, and returning Incomplete, when a line of
\* no token reaches it
input_tokens_wait(st, ts, len) ==
  IF st.parser = <<>> /\ ts.tokens = <<>> THEN [st |-> take(st), ret |-> Ret("Empty")]
  ELSE
    LET parser == IF st.parser = <<>> THEN ParserNew ELSE st.parser[1]
        fed == feed(parser, ts.tokens)
        acc == accept(fed.parser)
    IN  IF fed.kind = "Panic" THEN [st |-> take(st), ret |-> Ret("Panic")]
        ELSE IF fed.kind = "Reject" THEN
          [st |-> take(st), ret |-> RetErr(SyntaxError(fed.column))]
        ELSE IF ~ts.complete \/ ts.tokens = <<>> THEN
          [st |-> [take(st) EXCEPT !.parser = <<fed.parser>>],
           ret |-> Ret("Incomplete")]
        ELSE IF acc.panic THEN [st |-> take(st), ret |-> Ret("Panic")]
        ELSE IF acc.some THEN translate_ast(take(st), acc.ast)
        ELSE [st |-> take(st), ret |-> RetErr(SyntaxError(len))]

\* Interpreter::input, from the token stream on (line 149)
input_tokens(st, ts, len) ==
  IF st.parser = <<>> /\ ts.tokens = <<>> THEN [st |-> take(st), ret |-> Ret("Empty")]
  ELSE
    LET parser == IF st.parser = <<>> THEN ParserNew ELSE st.parser[1]
        fed == feed(parser, ts.tokens)
        acc == accept(fed.parser)
    IN  IF fed.kind = "Panic" THEN [st |-> take(st), ret |-> Ret("Panic")]
        ELSE IF fed.kind = "Reject" THEN
          [st |-> take(st), ret |-> RetErr(SyntaxError(fed.column))]
        ELSE IF ~ts.complete THEN
          [st |-> [take(st) EXCEPT !.parser = <<fed.parser>>],
           ret |-> Ret("Incomplete")]
        ELSE IF acc.panic THEN [st |-> take(st), ret |-> Ret("Panic")]
        ELSE IF acc.some THEN translate_ast(take(st), acc.ast)
        ELSE [st |-> take(st), ret |-> RetErr(SyntaxError(len))]

\* Interpreter::input
input(st, line) ==
  LET ts == tokenize(line)
  IN  IF ts.kind = "Panic" THEN [st |-> st, ret |-> Ret("Panic")]
      ELSE IF ts.kind = "Err" THEN [st |-> st, ret |-> RetErr(InvalidToken(ts))]
      ELSE input_tokens(st, ts, Len(line))

\* the names insert_builtin_fn is called with, and their incount
BuiltinFns ==
  {<<"a","b","s">>, <<"f","l","o","o","r">>, <<"c","e","i","l">>,
   <<"r","o","u","n","d">>, <<"s","g","n">>, <<"s","q","r","t">>,
   <<"c","b","r","t">>, <<"s","i","n">>, <<"c","o","s">>, <<"t","a","n">>,
   <<"a","s","i","n">>, <<"a","c","o","s">>, <<"a","t","a","n">>,
   <<"a","t","a","n","2">>, <<"l","n">>, <<"l","o","g">>}

\* an identifier as the lib name of its closure: its bytes joined
RECURSIVE Join(_)
Join(ident) == IF ident = <<>> THEN "" ELSE Head(ident) \o Join(Tail(ident))

\* Interpreter::new.  pi and e are cut to five decimals: the integers of the
\* model checker are 32 bits wide and the numerators must stay multipliable.
InterpreterNew ==
  [values |->
     (<<"_">> :> Entry(FALSE, R(0)))
     @@ (<<"p","i">> :> Entry(TRUE, Norm(314159, 100000)))
     @@ (<<"e">> :> Entry(TRUE, Norm(271828, 100000))),
   functions |->
     [name \in BuiltinFns |->
        LibFn(IF name = <<"a","t","a","n","2">> THEN 2 ELSE 1, Join(name))],
   parser |-> <<>>,
   cur_ident |-> <<>>,
   cur_variables |-> <<>>]

\* Interpreter::last_result
last_result(st) == st.values[<<"_">>].value

\* ------------------------------------------------------------------------
\* The lines a session reads (examples/mfnic.rs reads one line at a time and
\* hands its bytes, with the terminating zero byte, to Interpreter::input).
\* ------------------------------------------------------------------------

\* "1 + 2"
S_Sum == <<"1"," ","+"," ","2">>

\* "2*3"
S_Prod == <<"2","*","3">>

\* "sin = 3"
S_AssignSin == <<"s","i","n"," ","="," ","3">>

\* "y = h(1)"
S_AssignYH == <<"y"," ","="," ","h","(","1",")">>

\* "x = 2"
S_AssignX == <<"x"," ","="," ","2">>

\* "x:a = a"
S_DefX == <<"x",":","a"," ","="," ","a">>


\* "k:a,b = a - b"
S_DefK == <<"k",":","a",",","b"," ","="," ","a"," ","-"," ","b">>

\* "k(5,3)"
S_CallK == <<"k","(","5",",","3",")">>

\* "k(1)"
S_CallK1 == <<"k","(","1",")">>

\* "k(1,2,3)"
S_CallK3 == <<"k","(","1",",","2",",","3",")">>

\* "k(nope)"
S_CallKUndef == <<"k","(","n","o","p","e",")">>

\* "pi = 3"
S_AssignPi == <<"p","i"," ","="," ","3">>

\* "pi = nope"
S_AssignPiUndef == <<"p","i"," ","="," ","n","o","p","e">>

\* "sin:x = x"
S_DefSin == <<"s","i","n",":","x"," ","="," ","x">>

\* "pi:a = a"
S_DefPi == <<"p","i",":","a"," ","="," ","a">>

\* "x:pi = pi"
S_DefParamPi == <<"x",":","p","i"," ","="," ","p","i">>

\* "f:pi,e = 1"
S_DefParamsPiE == <<"f",":","p","i",",","e"," ","="," ","1">>

\* "sin:pi = 1"
S_DefSinParamPi == <<"s","i","n",":","p","i"," ","="," ","1">>

\* "pi:a,a = a"
S_DefPiRepeat == <<"p","i",":","a",",","a"," ","="," ","a">>

\* "f:a,a = a"
S_DefRepeat == <<"f",":","a",",","a"," ","="," ","a">>

\* "f:pi,pi = 1"
S_DefRepeatPi == <<"f",":","p","i",",","p","i"," ","="," ","1">>

\* "k:b,a,b = a"
S_DefKRepeat == <<"k",":","b",",","a",",","b"," ","="," ","a">>


\* "nope"
S_Undef == <<"n","o","p","e">>

\* "1 )"
S_RParen == <<"1"," ",")">>

\* "1 +"
S_Dangling == <<"1"," ","+">>

\* "$"
S_Dollar == <<"$">>

\* "..."
S_Marker == <<".",".",".">>

\* the empty line
S_Empty == <<>>

\* a line of one space
S_Blank == <<" ">>


\* "g:x = x+1"
S_DefG1 == <<"g",":","x"," ","="," ","x","+","1">>

\* "g:x = x+2"
S_DefG2 == <<"g",":","x"," ","="," ","x","+","2">>

\* "h:x = g(x)"
S_DefH == <<"h",":","x"," ","="," ","g","(","x",")">>

\* "h(1)"
S_CallH == <<"h","(","1",")">>

\* "g(1)"
S_CallG == <<"g","(","1",")">>

\* "f:n = n<=1 ? 1 : n*f(n-1)"
S_DefFact == <<"f",":","n"," ","="," ","n","<","=","1"," ","?"," ","1"," ",":"," ","n","*","f","(","n","-","1",")">>

\* "f(5)"
S_CallFact == <<"f","(","5",")">>

\* "f:n = f(n)"
S_DefLoop == <<"f",":","n"," ","="," ","f","(","n",")">>

\* "f(1)"
S_CallLoop == <<"f","(","1",")">>

\* "f:a,b = f(a)"
S_DefSelfCount == <<"f",":","a",",","b"," ","="," ","f","(","a",")">>

\* "1 ? 5 : nope"
S_TernaryUndef == <<"1"," ","?"," ","5"," ",":"," ","n","o","p","e">>

\* "1 ? 5 : k(1)"
S_TernaryArity == <<"1"," ","?"," ","5"," ",":"," ","k","(","1",")">>

\* "1 ? 5 : f(1)"
S_TernaryLoop == <<"1"," ","?"," ","5"," ",":"," ","f","(","1",")">>

\* "0 ? nope : 5"
S_TernaryFalse == <<"0"," ","?"," ","n","o","p","e"," ",":"," ","5">>

\* "1 ? 5 : 7"
S_TernaryOk == <<"1"," ","?"," ","5"," ",":"," ","7">>

\* "1<2||0&&0"
S_OrAnd == <<"1","<","2","|","|","0","&","&","0">>

\* "2^3^2"
S_ExpExp == <<"2","^","3","^","2">>

\* "-2^2"
S_NegExp == <<"-","2","^","2">>

\* "-2^3"
S_NegExpOdd == <<"-","2","^","3">>

\* "2+3*4"
S_SumProd == <<"2","+","3","*","4">>

\* "1<2&&0"
S_LtAnd == <<"1","<","2","&","&","0">>

\* "1?2:0?3:4"
S_TernaryNest == <<"1","?","2",":","0","?","3",":","4">>

\* "0?1:0?2:3"
S_TernaryNestElse == <<"0","?","1",":","0","?","2",":","3">>

\* "1?1:2+3"
S_TernarySum == <<"1","?","1",":","2","+","3">>

\* "1||0?2:3"
S_OrTernary == <<"1","|","|","0","?","2",":","3">>

\* "0&&1?2:3"
S_AndTernary == <<"0","&","&","1","?","2",":","3">>

\* "1 <=> 2"
S_ThreeWay == <<"1"," ","<","=",">"," ","2">>

\* "!_"
S_NotResult == <<"!","_">>

\* "f:n = n || f(n)"
S_DefOrRec == <<"f",":","n"," ","="," ","n"," ","|","|"," ","f","(","n",")">>

\* "f:n = n && f(n)"
S_DefAndRec == <<"f",":","n"," ","="," ","n"," ","&","&"," ","f","(","n",")">>

\* "f(0)"
S_CallZero == <<"f","(","0",")">>

\* "a = 1"
S_AssignA1 == <<"a"," ","="," ","1">>

\* "a = 5"
S_AssignA5 == <<"a"," ","="," ","5">>

\* "f:x = x + a"
S_DefFA == <<"f",":","x"," ","="," ","x"," ","+"," ","a">>

\* "g:a = a + 1"
S_DefGA == <<"g",":","a"," ","="," ","a"," ","+"," ","1">>

\* "a"
S_BareA == <<"a">>

\* "x"
S_BareX == <<"x">>

\* "b = x"
S_AssignBX == <<"b"," ","="," ","x">>

\* "m:a,b = k(b,a)"
S_DefM == <<"m",":","a",",","b"," ","="," ","k","(","b",",","a",")">>

\* "m(5,3)"
S_CallM == <<"m","(","5",",","3",")">>

\* "p:a,b = a<=0 ? b : p(a-1,b+2)"
S_DefP == <<"p",":","a",",","b"," ","="," ","a","<","=","0"," ","?"," ","b"," ",":"," ","p","(","a","-","1",",","b","+","2",")">>

\* "p(2,1)"
S_CallP == <<"p","(","2",",","1",")">>

\* "g(3)"
S_CallG3 == <<"g","(","3",")">>

\* "a = a"
S_AssignAA == <<"a"," ","="," ","a">>

\* "k(5)"
S_CallKOne == <<"k","(","5",")">>

\* a binary operator as it is written and as the lexer hands it on
Operator(bytes, token) == [bytes |-> bytes, token |-> token]

ExpOp == Operator(<<"^">>, EXP)

MulOp == Operator(<<"*">>, MD("MUL"))

DivOp == Operator(<<"/">>, MD("DIV"))

AddOp == Operator(<<"+">>, PN("ADD"))

SubOp == Operator(<<"-">>, PN("SUB"))

LtOp == Operator(<<"<">>, CMP("LT"))

GtOp == Operator(<<">">>, CMP("GT"))

OrOp == Operator(<<"|", "|">>, OR)

AndOp == Operator(<<"&", "&">>, AND)

LogicOps == {OrOp, AndOp}

BinOps == {MulOp, DivOp, AddOp, SubOp, LtOp, GtOp} \cup LogicOps

\* the operands of the generated expressions, one digit each
ArithTriples == {<<"4", "3", "2">>, <<"1", "2", "1">>}

LogicTriples == {<<"1", "0", "0">>, <<"0", "0", "1">>}

\* "a o1 b o2 c" written without spaces
Infix(t, o1, o2) == <<t[1]>> \o o1.bytes \o <<t[2]>> \o o2.bytes \o <<t[3]>>

LeOp == Operator(<<"<", "=">>, CMP("LE"))

GeOp == Operator(<<">", "=">>, CMP("GE"))

EqOp == Operator(<<"=", "=">>, CMP("EQ"))

NeOp == Operator(<<"!", "=">>, CMP("NE"))

ThreeWayOp == Operator(<<"<", "=", ">">>, CMP("CMP"))

TwoWayOps == {LtOp, GtOp, LeOp, GeOp, EqOp, NeOp}

\* the operands of the generated comparisons
ComparePairs == {<<"1", "2">>, <<"2", "2">>, <<"3", "2">>}

\* "a o b" written without spaces
Infix2(t, o) == <<t[1]>> \o o.bytes \o <<t[2]>>


\* a session that exercises continuation and every kind of error
SessionStmts ==
  {S_Sum, S_Prod, S_AssignX, S_DefK, S_CallK1, S_AssignPi, S_DefRepeat,
   S_Undef, S_RParen, S_Dangling, S_Dollar, S_Marker, S_Empty, S_Blank}

\* the statements of that session that are also submitted in pieces
SplitStmts == {S_Sum, S_Prod, S_AssignX}

\* a session that tries to rebind the builtin names
NameStmts ==
  {S_AssignPi, S_AssignPiUndef, S_DefSin, S_DefPi, S_DefParamPi,
   S_DefParamsPiE, S_DefSinParamPi, S_DefPiRepeat, S_DefRepeat, S_DefRepeatPi,
   S_DefKRepeat, S_AssignX, S_DefX, S_AssignSin, S_DefK, S_Sum}

\* a session that defines, redefines and calls g and h
RedefStmts ==
  {S_DefG1, S_DefG2, S_DefH, S_CallH, S_CallG, S_AssignYH, S_AssignX, S_Sum}

\* a session of recursive definitions, calls and ternaries
FnStmts ==
  {S_DefFact, S_CallFact, S_DefLoop, S_CallLoop, S_DefSelfCount, S_DefK,
   S_CallK, S_CallK1, S_CallK3, S_CallKUndef, S_TernaryUndef, S_TernaryArity,
   S_TernaryLoop, S_TernaryFalse, S_TernaryOk}

\* a session of expressions of two operators, and of nested ternaries
PrecStmts ==
  {Infix(t, o1, o2) : t \in ArithTriples, o1 \in BinOps, o2 \in BinOps}
  \cup {Infix(t, o1, o2) : t \in LogicTriples, o1 \in LogicOps, o2 \in LogicOps}
  \cup {Infix(t, ExpOp, ExpOp) : t \in ArithTriples}
  \cup {S_OrAnd, S_ExpExp, S_NegExp, S_NegExpOdd,
        S_SumProd, S_LtAnd, S_TernaryNest, S_TernaryNestElse,
        S_TernarySum, S_OrTernary, S_AndTernary}

\* "-x"
S_BodyNeg == <<"-","x">>

\* "+x - y"
S_BodyPos == <<"+","x"," ","-"," ","y">>

\* "!x"
S_BodyNot == <<"!","x">>

\* "(x - y) * y"
S_BodyParen == <<"(","x"," ","-"," ","y",")"," ","*"," ","y">>

\* "x ? y : 2"
S_BodyCond == <<"x"," ","?"," ","y"," ",":"," ","2">>

\* "x - y ? x / y : x"
S_BodyCondDiv == <<"x"," ","-"," ","y"," ","?"," ","x"," ","/"," ","y"," ",":"," ","x">>

\* "abs(x - y)"
S_BodyAbs == <<"a","b","s","(","x"," ","-"," ","y",")">>

\* "f(x) + y"
S_BodyCallF == <<"f","(","x",")"," ","+"," ","y">>

\* "x - y * x"
S_BodyNested == <<"x"," ","-"," ","y"," ","*"," ","x">>

\* "x + 2 * 3"
S_BodyConst == <<"x"," ","+"," ","2"," ","*"," ","3">>

\* "x<=0 ? y : h(x-1,y+2)"
S_BodySelf == <<"x","<","=","0"," ","?"," ","y"," ",":"," ","h","(","x","-","1",",","y","+","2",")">>

\* the bodies of the two-parameter function h: one binary operator over
\* both parameters, and the unary, conditional, nested and calling forms
FoldBodies ==
  {Infix2(<<"x", "y">>, o) :
     o \in {ExpOp, MulOp, DivOp, AddOp, SubOp} \cup LogicOps \cup TwoWayOps}
  \cup {S_BodyNeg, S_BodyPos, S_BodyNot, S_BodyParen, S_BodyCond,
        S_BodyCondDiv, S_BodyAbs, S_BodyCallF, S_BodyNested, S_BodyConst,
        S_BodySelf}

\* the arguments h is called with, one digit each
FoldArgs == {"0", "1", "2"}

\* "h:x,y = body"
DefH(body) == <<"h", ":", "x", ",", "y", " ", "=", " ">> \o body

\* "h(a,b)"
CallH(a, b) == <<"h", "(", a, ",", b, ")">>

\* a session of comparisons, of expressions over the result identifier and
\* of functions whose bodies are logical operations over a call of themselves
EvalStmts ==
  {Infix2(t, o) : t \in ComparePairs, o \in TwoWayOps \cup {ThreeWayOp}}
  \cup {S_ThreeWay, S_NotResult, S_Sum, S_DefOrRec, S_DefAndRec, S_CallZero,
        S_CallLoop}

\* a session that defines h with every form of body and calls it, f being
\* the function one of the bodies calls
FoldStmts ==
  {DefH(body) : body \in FoldBodies}
  \cup {CallH(a, b) : a \in FoldArgs, b \in FoldArgs}
  \cup {S_DefOrRec}

\* the longest line of bytes handed to the lexer alone, the marker lines
\* apart
MaxLineLen == 3

\* the bytes of those lines: a digit, a letter, the exponent letter, the
\* point, the lone halves of `||` and `&&`, a byte no token begins with,
\* a space, a sign and the zero byte
LexBytes == {"1", "x", "e", ".", "|", "&", "$", " ", "-", NUL}

\* every line of at most n bytes
Strings(n) == UNION {[1..k -> LexBytes] : k \in 0..n}

\* every short line, and every shorter line followed by the marker (with
\* and without a space before it) and by at most one more byte
LexStmts ==
  Strings(MaxLineLen)
  \cup {pre \o sp \o <<".", ".", ".">> \o post :
          pre \in Strings(MaxLineLen - 1), sp \in {<<>>, <<" ">>},
          post \in Strings(1)}

\* a session of globals read in function bodies, of parameters named as
\* globals, and of calls with two arguments, nested and self-recursive
ScopeStmts ==
  {S_AssignA1, S_AssignA5, S_AssignAA, S_DefFA, S_CallLoop, S_DefGA, S_CallG3,
   S_BareA, S_BareX, S_AssignBX, S_CallKOne, S_DefK, S_CallK, S_DefM, S_CallM, S_DefP, S_CallP}

\* the columns at which the tokens of the statements submitted in pieces
\* begin (Lexer::tokenize yields these columns: see ColsAgree)
Cols ==
  (S_Sum :> <<0, 2, 4>>) @@ (S_Prod :> <<0, 1, 2>>)
  @@ (S_AssignX :> <<0, 2, 4>>)

\* Cols holds the columns Lexer::tokenize gives the tokens
ColsAgree ==
  \A stmt \in SplitStmts :
    LET ts == tokenize(stmt \o <<NUL>>)
    IN  /\ ts.kind = "Ok"
        /\ Cols[stmt] = [k \in 1..Len(ts.tokens) |-> ts.tokens[k].column]

NTok(stmt) == Len(Cols[stmt])

\* A line is a whole statement (i = 0) or a piece of one: its tokens i..j-1,
\* followed by the continuation marker (after sp spaces) when marker holds.
Whole(stmt) == [stmt |-> stmt, i |-> 0, j |-> 0, sp |-> 0, marker |-> FALSE]

Pieces(stmt) ==
  {[stmt |-> stmt, i |-> i, j |-> j, sp |-> sp, marker |-> TRUE] :
     i \in 1..NTok(stmt), j \in 2..(NTok(stmt) + 1), sp \in {0, 1}}
  \cup
  {[stmt |-> stmt, i |-> i, j |-> NTok(stmt) + 1, sp |-> 0, marker |-> FALSE] :
     i \in 2..NTok(stmt)}

IsPiece(l) == l.i > 0

\* the bytes of a line, zero byte included
Text(l) ==
  IF ~IsPiece(l) THEN l.stmt \o <<NUL>>
  ELSE
    LET from == IF l.i = 1 THEN 0 ELSE Cols[l.stmt][l.i]
        to == IF l.j = NTok(l.stmt) + 1 THEN Len(l.stmt) ELSE Cols[l.stmt][l.j]
    IN  Bytes(l.stmt, from, to)
        \o (IF l.marker
            THEN (IF l.sp = 1 THEN <<" ">> ELSE <<>>) \o <<".", ".", ".">>
            ELSE <<>>)
        \o <<NUL>>

SessionLines ==
  {Whole(stmt) : stmt \in SessionStmts}
  \cup {l \in UNION {Pieces(stmt) : stmt \in SplitStmts} : l.i < l.j}

NameLines == {Whole(stmt) : stmt \in NameStmts}

RedefLines == {Whole(stmt) : stmt \in RedefStmts}

FnLines == {Whole(stmt) : stmt \in FnStmts}

PrecLines == {Whole(stmt) : stmt \in PrecStmts}

EvalLines == {Whole(stmt) : stmt \in EvalStmts}

LexLines == {Whole(stmt) : stmt \in LexStmts}

ScopeLines == {Whole(stmt) : stmt \in ScopeStmts}

FoldLines == {Whole(stmt) : stmt \in FoldStmts}






\* ------------------------------------------------------------------------
\* The interpreter as a state machine
\* ------------------------------------------------------------------------

VARIABLES
  values,          \* Interpreter::values
  functions,       \* Interpreter::functions
  parser,          \* Interpreter::parser
  cur_ident,       \* Interpreter::cur_ident
  cur_variables,   \* Interpreter::cur_variables
  ret,             \* what the last call of input returned
  line,            \* the line the last call of input was given
  was_pending,     \* whether a parser was pending when that call began
  pend             \* the statement whose pieces the pending parser holds

vars ==
  <<values, functions, parser, cur_ident, cur_variables, ret, line,
    was_pending, pend>>

\* the interpreter the variables hold
State ==
  [values |-> values, functions |-> functions, parser |-> parser,
   cur_ident |-> cur_ident, cur_variables |-> cur_variables]

NoLine == [stmt |-> <<>>, i |-> 0, j |-> 0, sp |-> 0, marker |-> FALSE]

NoPend == [stmt |-> <<>>, upto |-> 0]

Init ==
  /\ values = InterpreterNew.values
  /\ functions = InterpreterNew.functions
  /\ parser = InterpreterNew.parser
  /\ cur_ident = InterpreterNew.cur_ident
  /\ cur_variables = InterpreterNew.cur_variables
  /\ ret = Ret("")
  /\ line = NoLine
  /\ was_pending = FALSE
  /\ pend = NoPend

\* a panic or a stack overflow ends the process
Dead == ret.kind \in {"Panic", "Overflow"}

\* The pieces of a statement are submitted in order: a piece either begins a
\* statement when nothing is pending or continues the pending pieces.
InOrder(l) ==
  IsPiece(l) =>
    \/ l.i = 1 /\ parser = <<>>
    \/ l.i > 1 /\ parser # <<>> /\ pend.stmt = l.stmt /\ pend.upto = l.i

\* the variables after a call of input that ended [st, ret]
Returned(l, r) ==
  LET alive == r.ret.kind \notin {"Panic", "Overflow"}
  IN  /\ values' = IF alive THEN r.st.values ELSE values
      /\ functions' = IF alive THEN r.st.functions ELSE functions
      /\ parser' = IF alive THEN r.st.parser ELSE parser
      /\ cur_ident' = IF alive THEN r.st.cur_ident ELSE cur_ident
      /\ cur_variables' = IF alive THEN r.st.cur_variables ELSE cur_variables
      /\ ret' = r.ret
      /\ pend' = IF alive /\ r.st.parser = <<>> THEN NoPend
                 ELSE IF alive /\ l.marker /\ r.ret.kind = "Incomplete"
                   THEN [stmt |-> l.stmt, upto |-> l.j]
                 ELSE pend
      /\ line' = l
      /\ was_pending' = (parser # <<>>)

\* one call of Interpreter::input
Input(l) ==
  /\ ~Dead
  /\ InOrder(l)
  /\ Returned(l, input(State, Text(l)))

Next == \E l \in SessionLines : Input(l)

Spec == Init /\ [][Next]_vars

NextNames == \E l \in NameLines : Input(l)

SpecNames == Init /\ [][NextNames]_vars

NextRedef == \E l \in RedefLines : Input(l)

SpecRedef == Init /\ [][NextRedef]_vars

NextFn == \E l \in FnLines : Input(l)

SpecFn == Init /\ [][NextFn]_vars

NextPrec == \E l \in PrecLines : Input(l)

SpecPrec == Init /\ [][NextPrec]_vars

NextEval == \E l \in EvalLines : Input(l)

SpecEval == Init /\ [][NextEval]_vars

\* what input returns at line 148 when tokenize fails, and what the lexer
\* has found when it does not
LexRet(ts) ==
  IF ts.kind = "Panic" THEN Ret("Panic")
  ELSE IF ts.kind = "Err" THEN RetErr(InvalidToken(ts))
  ELSE IF ts.complete THEN Ret("Complete")
  ELSE Ret("Incomplete")

\* Lexer::new(line).tokenize() alone, on a line of a new process
LexLine(l) ==
  /\ line = NoLine
  /\ line' = l
  /\ ret' = LexRet(tokenize(Text(l)))
  /\ UNCHANGED <<values, functions, parser, cur_ident, cur_variables,
                 was_pending, pend>>

NextLex == \E l \in LexLines : LexLine(l)

SpecLex == Init /\ [][NextLex]_vars

NextScope == \E l \in ScopeLines : Input(l)

SpecScope == Init /\ [][NextScope]_vars

\* the calls of action made on one parser
MaxTokens == 6

\* one token of each of the fifteen kinds
ParseTokens ==
  {IDENT(<<"x">>), NUM(R(1)), ASSIGN, LPAREN, RPAREN, NOT, EXP, MD("MUL"),
   PN("ADD"), CMP("LT"), OR, AND, COND, COLON, COMMA}

\* the parser the interpreter holds, a new one when it holds none
Held == IF parser = <<>> THEN ParserNew ELSE parser[1]

RECURSIVE LeafCount(_)
\* the tokens shifted into a sequence of nodes
LeafCount(nodes) ==
  IF nodes = <<>> THEN 0
  ELSE (IF Head(nodes).leaf THEN 1 ELSE LeafCount(Head(nodes).children))
       + LeafCount(Tail(nodes))

\* the tokens a parser rejected: action pushes the state for the token
\* before it returns false
Rejections(p) == Len(p.stack) - Len(p.nodes)

\* the variables after a call on the parser that left parser p and ended as kind
Parsed(p, kind) ==
  /\ parser' = p
  /\ ret' = Ret(kind)
  /\ UNCHANGED <<values, functions, cur_ident, cur_variables, line,
                 was_pending, pend>>

\* one call of Parser::action
ParserAction(token) ==
  /\ ~Dead
  /\ LeafCount(Held.nodes) + Rejections(Held) < MaxTokens
  /\ LET a == action(Held, token)
     IN  IF a.panic THEN Parsed(parser, "Panic")
         ELSE IF a.ok THEN Parsed(<<a.parser>>, "Shifted")
         ELSE Parsed(<<a.parser>>, "Rejected")

\* one call of Parser::accept, which consumes the parser
ParserAccept ==
  /\ ~Dead
  /\ parser # <<>>
  /\ LET a == accept(Held)
     IN  IF a.panic THEN Parsed(parser, "Panic")
         ELSE IF a.some THEN Parsed(<<>>, "Some")
         ELSE Parsed(<<>>, "None")

NextParse ==
  \/ \E token \in ParseTokens : ParserAction(token)
  \/ ParserAccept

SpecParse == Init /\ [][NextParse]_vars

\* the calls Interpreter::input makes on its parser: action for the tokens
\* in turn, the parser dropped at the first token action rejects, accept
\* when the tokens are through
NextFeed ==
  \/ \E token \in ParseTokens : ret.kind # "Rejected" /\ ParserAction(token)
  \/ ret.kind # "Rejected" /\ ParserAccept
  \/ ret.kind = "Rejected" /\ Parsed(<<>>, "SyntaxError")

SpecFeed == Init /\ [][NextFeed]_vars

NextFold == \E l \in FoldLines : Input(l)

SpecFold == Init /\ [][NextFold]_vars








\* ------------------------------------------------------------------------
\* Properties
\* ------------------------------------------------------------------------

\* the last call returned the InputError of this type
Failed(type) == ret.kind = "Err" /\ ret.err.type = type

Pi == <<"p", "i">>

\* the identifiers Interpreter::new binds as builtin values
BuiltinValues == {Pi, <<"e">>}

\* C1: a lexical error on a line submitted while a statement is pending
\* discards the pending parser: no parser is pending after the call.
C1_LexicalErrorDiscardsParser ==
  (was_pending /\ Failed("InvalidToken")) => parser = <<>>

\* the call returned the lexical error and the parser is still pending
C1_LexicalErrorKeepsParser ==
  was_pending /\ Failed("InvalidToken") /\ parser # <<>>

\* this step is a call that ends as r: the same result and, when the call
\* returns, the same tables and parser
EndsAs(r) ==
  /\ ret' = r.ret
  /\ r.ret.kind \notin {"Panic", "Overflow"} =>
       /\ values' = r.st.values
       /\ functions' = r.st.functions
       /\ parser' = r.st.parser

\* C2: after a SyntaxError (a token the automaton rejects, or a final
\* reduction that yields no tree) no parser is pending, and the next call
\* ends as it does on an interpreter with the same tables and no parser.
C2_SyntaxErrorLeavesNoParser ==
  [][Failed("SyntaxError") =>
       /\ parser = <<>>
       /\ EndsAs(input([State EXCEPT !.parser = <<>>], Text(line')))]_vars

\* a line rejected while a statement was pending
C2_SyntaxErrorWhilePending ==
  was_pending /\ Failed("SyntaxError") /\ parser = <<>>

\* this step returns what the call one returns and leaves its tables
SameOutcome(one) ==
  /\ ret' = one.ret
  /\ values' = one.st.values
  /\ functions' = one.st.functions

\* C3: the pieces of a statement, submitted in order with the marker at the
\* end of every piece but the last, return Incomplete for every piece but the
\* last, and the last piece returns what the whole statement on one line
\* returns and leaves the tables that line leaves.
C3_SplitEqualsOneLine ==
  [][(/\ IsPiece(line')
      /\ \/ line'.i = 1 /\ parser = <<>>
         \/ line'.i > 1 /\ parser # <<>> /\ pend.stmt = line'.stmt
                        /\ pend.upto = line'.i) =>
       IF line'.marker THEN ret'.kind = "Incomplete"
       ELSE SameOutcome(input([State EXCEPT !.parser = <<>>],
                              Text(Whole(line'.stmt))))]_vars

\* a first piece that ends with a number and the marker directly after it
C3_MarkerAfterNumberFails ==
  /\ line = [stmt |-> S_Prod, i |-> 1, j |-> 2, sp |-> 0, marker |-> TRUE]
  /\ ~was_pending
  /\ Failed("InvalidToken")

\* C4: a call of input that returns an error leaves the value table and the
\* function table as they were, the result identifier included.
C4_ErrorLeavesTablesUnchanged ==
  [][ret'.kind = "Err" => values' = values /\ functions' = functions]_vars

\* a translation error on the line that completes a pending statement, with
\* a value, a function and a result bound by the user
C4_ErrorWithUserBindings ==
  /\ was_pending
  /\ Failed("UndefinedIdentifier")
  /\ <<"x">> \in DOMAIN values
  /\ <<"k">> \in DOMAIN functions
  /\ last_result(State) # R(0)

\* C5: after any inputs the builtin constants are bound to their initial
\* values with the builtin flag, and every builtin function name is bound to
\* its builtin function with its arity.
C5_BuiltinsStayBound ==
  /\ \A ident \in BuiltinValues :
       /\ ident \in DOMAIN values
       /\ values[ident] = InterpreterNew.values[ident]
       /\ values[ident].builtin
  /\ \A name \in BuiltinFns :
       /\ name \in DOMAIN functions
       /\ functions[name] = InterpreterNew.functions[name]

\* an attempt to rebind a builtin was refused after a value named like a
\* builtin function and a user function were bound
C5_RebindingRefused ==
  /\ Failed("BuiltinIdentifier")
  /\ <<"s", "i", "n">> \in DOMAIN values
  /\ <<"k">> \in DOMAIN functions

\* the tokens of the line of the last call
LineTokens == tokenize(Text(line)).tokens

IsPlainAssignment(toks) ==
  Len(toks) >= 3 /\ toks[1].token.id = 0 /\ toks[2].token.id = 2

IsDefinition(toks) ==
  Len(toks) >= 5 /\ toks[1].token.id = 0 /\ toks[2].token.id = 13

\* the name a plain assignment or a definition binds
Target(toks) == toks[1].token.ident

\* the positions of the parameters of a definition: the identifiers between
\* the colon and the first `=`
ParamPositions(toks) ==
  {k \in 3..Len(toks) :
     /\ toks[k].token.id = 0
     /\ \A m \in 2..k : toks[m].token.id # 2}

BuiltinParams(toks) ==
  {k \in ParamPositions(toks) : toks[k].token.ident \in BuiltinValues}

RepeatsParam(toks) ==
  \E k, m \in ParamPositions(toks) :
    k # m /\ toks[k].token.ident = toks[m].token.ident

IsBuiltinName(ident) == ident \in BuiltinValues \cup BuiltinFns

\* C6 as stated: a plain assignment to a builtin constant, a definition
\* named as a builtin constant or function, and a definition listing a
\* builtin constant as a parameter each fail with BuiltinIdentifier carrying
\* that identifier.
C6_BuiltinIdentifierAsStated ==
  LET toks == LineTokens
  IN  /\ (IsPlainAssignment(toks) /\ Target(toks) \in BuiltinValues) =>
           ret = RetErr(BuiltinIdentifier(Target(toks)))
      /\ (IsDefinition(toks) /\ IsBuiltinName(Target(toks))) =>
           ret = RetErr(BuiltinIdentifier(Target(toks)))
      /\ IsDefinition(toks) =>
           \A k \in BuiltinParams(toks) :
             ret = RetErr(BuiltinIdentifier(toks[k].token.ident))

\* C6, amended: a plain assignment to a builtin constant fails with
\* BuiltinIdentifier carrying the target; a definition listing builtin
\* constants as parameters fails with BuiltinIdentifier carrying the last
\* such parameter of the list; a definition named as a builtin constant or
\* function whose parameters are distinct and none of them a builtin
\* constant fails with BuiltinIdentifier carrying the name.
C6_BuiltinIdentifierAmended ==
  LET toks == LineTokens
  IN  /\ (IsPlainAssignment(toks) /\ Target(toks) \in BuiltinValues) =>
           ret = RetErr(BuiltinIdentifier(Target(toks)))
      /\ (IsDefinition(toks) /\ BuiltinParams(toks) # {}) =>
           LET last == CHOOSE k \in BuiltinParams(toks) :
                         \A m \in BuiltinParams(toks) : m <= k
           IN  ret = RetErr(BuiltinIdentifier(toks[last].token.ident))
      /\ (/\ IsDefinition(toks)
          /\ IsBuiltinName(Target(toks))
          /\ BuiltinParams(toks) = {}
          /\ ~RepeatsParam(toks)) =>
           ret = RetErr(BuiltinIdentifier(Target(toks)))

\* a definition listing pi and e fails carrying e, the last of them
C6_LastBuiltinParameterCarried ==
  /\ line = Whole(S_DefParamsPiE)
  /\ ret = RetErr(BuiltinIdentifier(<<"e">>))

\* C7: a ternary whose condition is a constant yields the value of the
\* taken branch whatever the untaken branch holds: an undefined identifier,
\* a call with the wrong number of arguments, a call that does not return.
C7_UntakenBranchNeverTranslated ==
  line.stmt \in {S_TernaryUndef, S_TernaryArity, S_TernaryLoop, S_TernaryFalse}
    => ret.kind = "Expression" /\ last_result(State) = R(5)

\* the untaken branch was translated and its identifier reported
C7_UntakenBranchReported ==
  /\ line = Whole(S_TernaryUndef)
  /\ ret = RetErr(UndefinedIdentifier(<<"n", "o", "p", "e">>))

G == <<"g">>

H == <<"h">>

\* the value a function yields for the argument 1
At1(f) == invoke(f, <<R(1)>>, 1)

\* C8: the definition of h binds its call of g to the function g is bound to
\* at that time; redefining g leaves h as it is and binds g to the new
\* function; a call of h yields what the function h holds yields.
C8_RedefinitionKeepsCallee ==
  [][/\ (line'.stmt = S_DefH /\ ret'.kind = "Assignment") =>
          functions'[H] = UserFn(1, Invoke(<<functions[G]>>, <<Variable(0)>>))
     /\ (/\ line'.stmt \in {S_DefG1, S_DefG2}
         /\ ret'.kind = "Assignment"
         /\ H \in DOMAIN functions) =>
          /\ functions'[H] = functions[H]
          /\ At1(functions'[H]) = At1(functions[H])
          /\ At1(functions'[G]) =
               Val(R(IF line'.stmt = S_DefG1 THEN 2 ELSE 3))
     /\ (line'.stmt = S_CallH /\ H \in DOMAIN functions) =>
          /\ ret'.kind = "Expression"
          /\ Val(last_result(State')) = At1(functions[H])]_vars

\* h was defined over g:x = x+1, g was redefined as x+2: h(1) is 2, g(1) is 3
C8_OldCalleeAfterRedefinition ==
  /\ line = Whole(S_CallH)
  /\ ret.kind = "Expression"
  /\ last_result(State) = R(2)
  /\ At1(functions[G]) = Val(R(3))

F == <<"f">>

\* the body of f:n = n<=1 ? 1 : n*f(n-1), its call of f with no bound callee
FactBody ==
  Condition(Compare("LE", Variable(0), Num(R(1))),
            Num(R(1)),
            Bin("Mul", Variable(0),
                Invoke(<<>>, <<Bin("Sub", Variable(0), Num(R(1)))>>)))

\* C9: inside the definition of f a call of f becomes an invoke node with no
\* bound callee, which evaluation resolves to the function being evaluated,
\* and a ternary evaluates its condition and then one branch: with
\* f:n = n<=1 ? 1 : n*f(n-1) the call f(5) returns 120.
C9_SelfRecursionTerminates ==
  /\ (line.stmt = S_DefFact /\ ret.kind = "Assignment") =>
       functions[F] = UserFn(1, FactBody)
  /\ (/\ line.stmt = S_CallFact
      /\ F \in DOMAIN functions
      /\ functions[F] = UserFn(1, FactBody)) =>
       /\ ret.kind = "Expression"
       /\ last_result(State) = R(120)

\* f(5) returned 120
C9_FactorialOfFive ==
  /\ line = Whole(S_CallFact)
  /\ ret.kind = "Expression"
  /\ last_result(State) = R(120)

K == <<"k">>

\* C10: a call whose argument count differs from the parameter count of its
\* callee fails with InconsistentVariablesCount carrying the name of the
\* callee, for a defined function and for the function being defined.
C10_ArityMismatchReported ==
  /\ (/\ line.stmt \in {S_CallK1, S_CallK3, S_CallKUndef}
      /\ K \in DOMAIN functions) =>
       ret = RetErr(InconsistentVariablesCount(K))
  /\ line.stmt = S_DefSelfCount =>
       ret = RetErr(InconsistentVariablesCount(F))

\* one argument for the two parameters of k, and the argument is reported
C10_ArgumentReportedFirst ==
  /\ line = Whole(S_CallKUndef)
  /\ K \in DOMAIN functions
  /\ ret = RetErr(UndefinedIdentifier(<<"n", "o", "p", "e">>))

\* the tokens of a line
TokensOf(l) == tokenize(Text(l)).tokens

\* the identifiers a definition names at two positions of its parameters
RepeatedParams(toks) ==
  {toks[k].token.ident :
     k \in {k \in ParamPositions(toks) :
              \E m \in ParamPositions(toks) :
                m # k /\ toks[m].token.ident = toks[k].token.ident}}

\* C11 as stated: a definition whose parameter list names the same
\* identifier at two positions fails with RepeatVariable carrying that
\* identifier, and installs no function.
C11_RepeatVariableAsStated ==
  [][LET toks == TokensOf(line')
     IN  (IsDefinition(toks) /\ RepeatsParam(toks)) =>
           /\ ret'.kind = "Err"
           /\ ret'.err.type = "RepeatVariable"
           /\ ret'.err.ident \in RepeatedParams(toks)
           /\ functions' = functions]_vars

\* C11, amended: a definition whose parameter list names no builtin
\* constant and names the same identifier at two positions fails with
\* RepeatVariable carrying an identifier named twice, and installs no
\* function; when the list names a builtin constant the definition fails
\* with BuiltinIdentifier instead, and installs no function either.
C11_RepeatVariableAmended ==
  [][LET toks == TokensOf(line')
     IN  (IsDefinition(toks) /\ RepeatsParam(toks)) =>
           /\ ret'.kind = "Err"
           /\ functions' = functions
           /\ IF BuiltinParams(toks) = {}
              THEN /\ ret'.err.type = "RepeatVariable"
                   /\ ret'.err.ident \in RepeatedParams(toks)
              ELSE ret'.err.type = "BuiltinIdentifier"]_vars

\* k is a user function and a definition of k naming b twice was refused
C11_RepeatRefusedKeepsK ==
  /\ line = Whole(S_DefKRepeat)
  /\ ret = RetErr(RepeatVariable(<<"b">>))
  /\ K \in DOMAIN functions
  /\ functions[K].incount = 2

\* the number a one-digit operand denotes
Operand(b) == R(to_digit(b))

\* the value of `x o y`
Applied(o, x, y) == FoldBinary(o.token.id + 4, o.token, Num(x), Num(y)).r

\* the value of `(a o1 b) o2 c`
LeftGrouped(t, o1, o2) ==
  Applied(o2, Applied(o1, Operand(t[1]), Operand(t[2])), Operand(t[3]))

\* the value of `a o1 (b o2 c)`
RightGrouped(t, o1, o2) ==
  Applied(o1, Operand(t[1]), Applied(o2, Operand(t[2]), Operand(t[3])))

\* the last call was given stmt, returned Expression and left r as result
Yielded(stmt, r) ==
  /\ line = Whole(stmt)
  /\ ret.kind = "Expression"
  /\ last_result(State) = r

Yields(stmt, r) == line = Whole(stmt) => Yielded(stmt, r)

\* C12: logical-and binds tighter than logical-or: `a || b && c` is
\* evaluated as `a || (b && c)` and `a && b || c` as `(a && b) || c`, so
\* "1<2||0&&0" evaluates to 1.
C12_AndBindsTighterThanOr ==
  /\ \A t \in ArithTriples \cup LogicTriples :
       /\ Yields(Infix(t, OrOp, AndOp), RightGrouped(t, OrOp, AndOp))
       /\ Yields(Infix(t, AndOp, OrOp), LeftGrouped(t, AndOp, OrOp))
  /\ Yields(S_OrAnd, R(1))

\* "1<2||0&&0" evaluated to 0, as `(1<2 || 0) && 0`
C12_OrBoundTighter == Yielded(S_OrAnd, R(0))

\* C13: the exponent operator is right-associative: `a ^ b ^ c` is evaluated
\* as `a ^ (b ^ c)`, so "2^3^2" evaluates to 512.
C13_ExponentRightAssociative ==
  /\ \A t \in ArithTriples :
       Yields(Infix(t, ExpOp, ExpOp), RightGrouped(t, ExpOp, ExpOp))
  /\ Yields(S_ExpExp, R(512))

\* "2^3^2" evaluated to 64, as `(2^3)^2`
C13_ExponentGroupedLeft == Yielded(S_ExpExp, R(64))

\* C14: a unary sign in front of an exponentiation binds outside it: `-a ^ b`
\* is evaluated as `-(a ^ b)`, so "-2^2" evaluates to -4 and "-2^3" to -8.
C14_SignOutsideExponent ==
  /\ Yields(S_NegExp, R(-4))
  /\ Yields(S_NegExpOdd, R(-8))

\* "-2^2" evaluated to 4, as `(-2)^2`
C14_SignInsideExponent == Yielded(S_NegExp, R(4))

\* the precedence classes of C15, higher binding tighter
Level(o) ==
  CASE o.token.id = 7 -> 4
    [] o.token.id = 8 -> 3
    [] o.token.id = 9 -> 2
    [] OTHER -> 1

\* C15: multiply/divide bind tighter than add/subtract, these tighter than
\* comparison, comparison tighter than both logical operators, and operators
\* of one of the first three classes group to the left: `a o1 b o2 c` is
\* evaluated as `(a o1 b) o2 c` unless o2 is of a higher class than o1, and
\* then as `a o1 (b o2 c)`.  The ternary binds loosest and nests to the
\* right.  "2+3*4" is 14 and "1<2&&0" is 0.
C15_BinaryPrecedence ==
  /\ \A t \in ArithTriples : \A o1 \in BinOps : \A o2 \in BinOps :
       (o1 \notin LogicOps \/ o2 \notin LogicOps) =>
         Yields(Infix(t, o1, o2),
                IF Level(o1) >= Level(o2) THEN LeftGrouped(t, o1, o2)
                ELSE RightGrouped(t, o1, o2))
  /\ Yields(S_SumProd, R(14))
  /\ Yields(S_LtAnd, R(0))
  /\ Yields(S_TernaryNest, R(2))
  /\ Yields(S_TernaryNestElse, R(3))
  /\ Yields(S_TernarySum, R(1))
  /\ Yields(S_OrTernary, R(2))
  /\ Yields(S_AndTernary, R(3))

\* "4+3*2" evaluated to 10
C15_ProductInsideSum == Yielded(Infix(<<"4", "3", "2">>, AddOp, MulOp), R(10))

\* the line names the result identifier `_`
MentionsResult(l) ==
  \E k \in 1..Len(TokensOf(l)) : TokensOf(l)[k].token = IDENT(<<"_">>)

\* the step submits again the line of the last call, both times a bare
\* expression that was evaluated
SubmittedAgain ==
  /\ line' = line
  /\ ret.kind = "Expression"
  /\ ret'.kind = "Expression"

\* C16 as stated: submitting the same bare expression twice in a row yields
\* the same result both times, for every expression the language accepts.
C16_SameExpressionSameResult ==
  [][SubmittedAgain => last_result(State)' = last_result(State)]_vars

\* C16, amended: submitting twice in a row the same bare expression that
\* does not name the result identifier `_` yields the same result both times.
C16_SameResultUnlessNamed ==
  [][(SubmittedAgain /\ ~MentionsResult(line)) =>
       last_result(State)' = last_result(State)]_vars

\* "3<=2" was evaluated to 0 while f was bound: submitting it again leaves
\* this very state
C16_ComparisonEvaluated ==
  /\ Yielded(Infix2(<<"3", "2">>, LeOp), R(0))
  /\ F \in DOMAIN functions

\* the body of f:n = n || f(n)
OrRecBody == Bin("Or", Variable(0), Invoke(<<>>, <<Variable(0)>>))

\* the body of f:n = n && f(n)
AndRecBody == Bin("And", Variable(0), Invoke(<<>>, <<Variable(0)>>))

\* C18: a logical-or or logical-and node evaluated at invocation time
\* evaluates both operands whatever the first one yields: with f:n = n || f(n)
\* or f:n = n && f(n) every call of f evaluates the call of f in its body, so
\* neither f(0) nor f(1) returns.
C18_BothOperandsEvaluated ==
  (/\ line.stmt \in {S_CallZero, S_CallLoop}
   /\ F \in DOMAIN functions
   /\ functions[F].body \in {OrRecBody, AndRecBody}) =>
    ret.kind = "Overflow"

\* f(1) returned 1 with f:n = n || f(n): the second operand was not evaluated
C18_OrShortCircuited ==
  /\ Yielded(S_CallLoop, R(1))
  /\ F \in DOMAIN functions
  /\ functions[F].body = OrRecBody

\* -1, 0 or 1 as x is below, equal to or above y
ThreeWay(x, y) == IF RLt(x, y) THEN R(-1) ELSE IF RLt(y, x) THEN R(1) ELSE R(0)

\* whether the comparison `x o y` holds
Holds(o, x, y) ==
  CASE o = LtOp -> RLt(x, y)
    [] o = GtOp -> RLt(y, x)
    [] o = LeOp -> ~RLt(y, x)
    [] o = GeOp -> ~RLt(x, y)
    [] o = EqOp -> x = y
    [] o = NeOp -> x # y

\* the six comparisons other than `<=>` evaluate to 1 when they hold and to
\* 0 otherwise
TwoWayComparisons ==
  \A t \in ComparePairs : \A o \in TwoWayOps :
    Yields(Infix2(t, o), Truth(Holds(o, Operand(t[1]), Operand(t[2]))))

\* C19: `a <=> b` is accepted as one comparison operator and evaluates to -1
\* when a < b, 0 when a = b and 1 when a > b; the six other comparisons
\* evaluate to 1 when they hold and to 0 otherwise.
C19_ThreeWayComparison ==
  /\ \A t \in ComparePairs :
       Yields(Infix2(t, ThreeWayOp), ThreeWay(Operand(t[1]), Operand(t[2])))
  /\ Yields(S_ThreeWay, R(-1))
  /\ TwoWayComparisons

\* "1 <=> 2" was refused as a syntax error at the operator
C19_ThreeWayRefused ==
  /\ line = Whole(S_ThreeWay)
  /\ ret = RetErr(SyntaxError(2))

\* what a bare expression of the session of g and h denotes in the state
\* before the call: the function called, applied to 1
Denoted(stmt) ==
  CASE stmt = S_Sum -> Val(R(3))
    [] stmt = S_CallG -> At1(functions[G])
    [] stmt = S_CallH -> At1(functions[H])

\* C17: a successful bare-expression statement returns Expression and
\* changes only the binding of `_`: the function table is unchanged, the
\* value table binds the same identifiers, every one but `_` to what it was
\* bound to, and last_result() returns the value of the expression.
C17_ExpressionChangesOnlyResult ==
  [][LET toks == TokensOf(line')
     IN  (/\ ~IsPlainAssignment(toks)
          /\ ~IsDefinition(toks)
          /\ ret'.kind \notin {"Err", "Panic", "Overflow"}) =>
           /\ ret'.kind = "Expression"
           /\ functions' = functions
           /\ DOMAIN values' = DOMAIN values
           /\ \A k \in DOMAIN values :
                k # <<"_">> => values'[k] = values[k]
           /\ Val(last_result(State)') = Denoted(line'.stmt)]_vars

\* g(1) was evaluated to 3 while x, y, g and h were bound by the user
C17_CallAmongBindings ==
  /\ Yielded(S_CallG, R(3))
  /\ <<"x">> \in DOMAIN values
  /\ <<"y">> \in DOMAIN values
  /\ H \in DOMAIN functions

\* C20: after any sequence of calls of input no identifier is bound both in
\* the value table and in the function table.
C20_TablesDisjoint == DOMAIN values \cap DOMAIN functions = {}

\* x is bound to 2 in the value table and to a user function in the
\* function table
C20_BoundInBothTables ==
  /\ <<"x">> \in DOMAIN values
  /\ values[<<"x">>] = Entry(FALSE, R(2))
  /\ <<"x">> \in DOMAIN functions
  /\ functions[<<"x">>] = UserFn(1, Variable(0))

\* the marker
Marker == <<".", ".", ".">>

\* the bytes of the line of the last call before column k, as a line
Before(k) == Bytes(line.stmt, 0, k) \o <<NUL>>

\* the bytes before column k hold no zero byte and lex, to at least one
\* token and to no marker
LexesBefore(k) ==
  /\ \A m \in 1..k : line.stmt[m] # NUL
  /\ tokenize(Before(k)).kind = "Ok"
  /\ tokenize(Before(k)).complete
  /\ tokenize(Before(k)).tokens # <<>>

\* C21: a line that ends with the marker `...` after other tokens, whatever
\* the last of them is and with or without whitespace in front of the
\* marker, lexes to those tokens with the completeness flag false, whatever
\* follows the marker.
C21_MarkerAfterAnyToken ==
  \A k \in 0..Len(line.stmt) :
    (/\ k + 3 <= Len(line.stmt)
     /\ Bytes(line.stmt, k, k + 3) = Marker
     /\ LexesBefore(k)) =>
      tokenize(Text(line)) = LexOk(tokenize(Before(k)).tokens, FALSE)

\* "1..." was refused by the lexer
C21_MarkerAfterDigitRefused ==
  /\ line = Whole(<<"1", ".", ".", ".">>)
  /\ ret.kind = "Err"
  /\ ret.err.type = "InvalidToken"

\* the line lexes to no token
NoToken(l) == tokenize(Text(l)).kind = "Ok" /\ TokensOf(l) = <<>>

\* C22: a line of no token submitted while no statement is pending returns
\* Empty and changes neither the tables nor the absent parser, and Empty is
\* returned in no other situation.
C22_EmptyOnlyWhenIdle ==
  [][/\ (NoToken(line') /\ parser = <<>>) =>
          /\ ret'.kind = "Empty"
          /\ values' = values
          /\ functions' = functions
          /\ parser' = <<>>
     /\ ret'.kind = "Empty" => (NoToken(line') /\ parser = <<>>)]_vars

\* a line of one space was answered with Empty while x and k were bound
C22_BlankLineAmongBindings ==
  /\ line = Whole(S_Blank)
  /\ ret.kind = "Empty"
  /\ <<"x">> \in DOMAIN values
  /\ K \in DOMAIN functions

\* the pieces the pending parser holds, as one line
PendingText ==
  Bytes(pend.stmt, 0,
        IF pend.upto = NTok(pend.stmt) + 1 THEN Len(pend.stmt)
        ELSE Cols[pend.stmt][pend.upto])
  \o <<NUL>>

\* this step ends as the call one ends, a final syntax error carrying the
\* length of the line of this step, and leaves no parser
Finalizes(one) ==
  /\ ret' = IF one.ret.kind = "Err" /\ one.ret.err.type = "SyntaxError"
            THEN RetErr(SyntaxError(Len(Text(line'))))
            ELSE one.ret
  /\ values' = one.st.values
  /\ functions' = one.st.functions
  /\ parser' = <<>>

\* C27 as stated: a line of no token and no marker submitted while a
\* statement is pending returns Assignment, Expression or a syntax error and
\* leaves no parser pending; a line of the marker alone submitted while a
\* statement is pending returns Incomplete and keeps the pending parser.
C27_EmptyLineFinalizes ==
  [][(parser # <<>> /\ NoToken(line')) =>
       IF tokenize(Text(line')).complete
       THEN /\ \/ ret'.kind \in {"Assignment", "Expression"}
               \/ ret'.kind = "Err" /\ ret'.err.type = "SyntaxError"
            /\ parser' = <<>>
       ELSE /\ ret'.kind = "Incomplete"
            /\ parser' = parser]_vars

\* C27, amended: such a line is not answered with Empty; it ends as the
\* pieces submitted so far end when they are submitted as one line, which is
\* Assignment, Expression, a syntax error or an error of their translation,
\* and leaves no parser pending; a line of the marker alone returns
\* Incomplete and keeps the pending parser.
C27_EmptyLineEndsStatement ==
  [][(parser # <<>> /\ NoToken(line')) =>
       IF tokenize(Text(line')).complete
       THEN /\ ret'.kind # "Empty"
            /\ Finalizes(input([State EXCEPT !.parser = <<>>], PendingText))
       ELSE /\ ret'.kind = "Incomplete"
            /\ parser' = parser]_vars

\* an empty line ended the pending pieces "x = 2" as an assignment
C27_AssignmentFinalized ==
  /\ line = Whole(S_Empty)
  /\ was_pending
  /\ ret.kind = "Assignment"
  /\ parser = <<>>
  /\ values[<<"x">>] = Entry(FALSE, R(2))

\* the bytes some arm of tokenize takes
Recognized ==
  Alphabetic \cup Digit \cup SingleBytes \cup Whitespace
  \cup {"_", "=", "!", ">", "<", "|", "&", ".", NUL}

\* the bytes before column k hold no zero byte and lex, to no marker
LexedUpTo(k) ==
  /\ \A m \in 1..k : line.stmt[m] # NUL
  /\ tokenize(Before(k)).kind = "Ok"
  /\ tokenize(Before(k)).complete

\* what Lexer::err reports of a byte
Found(b) == IF b = NUL THEN "end of command" ELSE b

\* the lexer failed at column with found
LexFailedAt(column, found) ==
  /\ tokenize(Text(line)).kind = "Err"
  /\ tokenize(Text(line)).column = column
  /\ tokenize(Text(line)).found = found

\* C23: when the lexer meets a byte no token begins with, the error carries
\* the column of that byte and reports that byte as found; when it meets a
\* lone `|` or `&`, the error carries the column of the byte that is not the
\* second half and reports that byte, or end of input, as found.
C23_ErrorAtOffendingByte ==
  \A k \in 0..(Len(line.stmt) - 1) :
    LET b == Text(line)[k + 1]
        n == Text(line)[k + 2]
    IN  LexedUpTo(k) =>
          /\ b \notin Recognized => LexFailedAt(k, Found(b))
          /\ (b \in {"|", "&"} /\ n # b) => LexFailedAt(k + 1, Found(n))

\* "$x" was refused at column 1, the x reported as found
C23_NextByteReported ==
  /\ line = Whole(<<"$", "x">>)
  /\ ret = RetErr(InputError("InvalidToken", <<>>, 1, "a valid token", "x"))

\* the column of the first zero byte of a line
FirstZero(bytes) ==
  CHOOSE k \in 0..(Len(bytes) - 1) :
    /\ bytes[k + 1] = NUL
    /\ \A m \in 1..k : bytes[m] # NUL

\* a line cut after its first zero byte: a read past that byte is a read
\* out of the bounds of the cut line
UpToZero(bytes) == SubSeq(bytes, 1, FirstZero(bytes) + 1)

\* C30: tokenize terminates on every line that holds a zero byte and reads
\* no byte past the first one: on the line cut after that byte it reads
\* nothing out of bounds, and it returns on the whole line what it returns
\* on the cut line.
C30_NoReadPastZero ==
  /\ tokenize(UpToZero(Text(line))).kind # "Panic"
  /\ tokenize(Text(line)) = tokenize(UpToZero(Text(line)))

\* a lone `|` directly before a zero byte that other bytes follow
C30_BarBeforeZero ==
  /\ line = Whole(<<"|", NUL, "x">>)
  /\ ret = RetErr(InputError("InvalidToken", <<>>, 1,
                             "logical 'or' operator", "end of command"))

A == <<"a">>

\* what one further call of input with a whole statement would end as
Called(st, stmt) == input(st, Text(Whole(stmt)))

\* the call ended as Expression and left r as last result
Gave(one, r) == one.ret.kind = "Expression" /\ last_result(one.st) = r

\* the interpreter the variables hold after the step
StateAfter ==
  [values |-> values', functions |-> functions', parser |-> parser',
   cur_ident |-> cur_ident', cur_variables |-> cur_variables']

\* two calls returned the same and left the same last result
SameCall(one, other) ==
  /\ one.ret = other.ret
  /\ last_result(one.st) = last_result(other.st)

\* C24: a global value read inside a function body is folded in as a
\* constant at definition time: once `f:x = x + a` is accepted f(1) is 1 plus
\* the value a had then, and any later reassignment of a leaves what a call
\* of f returns and yields unchanged.
C24_GlobalFoldedAtDefinition ==
  [][/\ (line' = Whole(S_DefFA) /\ ret'.kind = "Assignment") =>
          Gave(Called(StateAfter, S_CallLoop), RAdd(R(1), values[A].value))
     /\ (/\ line'.stmt \in {S_AssignA1, S_AssignA5}
         /\ ret'.kind = "Assignment"
         /\ F \in DOMAIN functions) =>
          SameCall(Called(State, S_CallLoop), Called(StateAfter, S_CallLoop))]_vars

\* f was defined while a was 1 and f(1) is 2 after a was reassigned to 5
C24_CalledAfterReassignment ==
  /\ Yielded(S_CallLoop, R(2))
  /\ A \in DOMAIN values
  /\ values[A].value = R(5)

X == <<"x">>

\* the step read the identifier as the global value of that name: it
\* succeeded as kind when the value is bound and failed with
\* UndefinedIdentifier when it is not
ReadGlobal(ident, kind) ==
  ret' = IF ident \in DOMAIN values THEN Ret(kind)
         ELSE RetErr(UndefinedIdentifier(ident))

\* C25: inside a function definition an identifier equal to a declared
\* parameter is that parameter even when a global value of the same name
\* exists (g of `g:a = a + 1` adds one to its argument whatever a is bound
\* to); in a plain assignment and in a bare expression the parameter list of
\* the definition translated before is not consulted: the identifier is the
\* global value or fails with UndefinedIdentifier.
C25_ParameterOnlyInsideDefinition ==
  [][/\ (line' = Whole(S_DefGA) /\ ret'.kind = "Assignment") =>
          Gave(Called(StateAfter, S_CallG3), R(4))
     /\ line' = Whole(S_BareA) =>
          /\ ReadGlobal(A, "Expression")
          /\ A \in DOMAIN values => last_result(StateAfter) = values[A].value
     /\ line' = Whole(S_AssignAA) =>
          /\ ReadGlobal(A, "Assignment")
          /\ values' = values
     /\ line' = Whole(S_BareX) => ret' = RetErr(UndefinedIdentifier(X))
     /\ line' = Whole(S_AssignBX) =>
          /\ ret' = RetErr(UndefinedIdentifier(X))
          /\ values' = values]_vars

\* `a` was read as the global value 5 after g was defined with a parameter a
C25_GlobalReadAfterDefinition ==
  /\ Yielded(S_BareA, R(5))
  /\ G \in DOMAIN functions

\* g(3) was evaluated to 4 while the global a was 5
C25_ParameterShadowsGlobal ==
  /\ Yielded(S_CallG3, R(4))
  /\ A \in DOMAIN values
  /\ values[A].value = R(5)

FnM == <<"m">>

FnP == <<"p">>

RECURSIVE WithinBounds(_, _)

\* every parameter index in e, a part of the body of self, is below the
\* number of arguments self is invoked with, every call in e supplies as many
\* arguments as its callee declares, and the same holds of the callee's body
WithinBounds(self, e) ==
  /\ e.op = "Variable" => e.i < self.incount
  /\ e.op = "Invoke" =>
       /\ Len(e.args) = Callee(self, e).incount
       /\ (e.f # <<>> /\ Callee(self, e).lib = "") =>
            WithinBounds(Callee(self, e), Callee(self, e).body)
  /\ \A i \in 1..Len(e.args) : WithinBounds(self, e.args[i])

\* a call of fn given as stmt left r as result, or was refused because fn
\* is not defined
CallYields(stmt, fn, r) ==
  line = Whole(stmt) =>
    IF fn \in DOMAIN functions THEN Yielded(stmt, r)
    ELSE ret = RetErr(UndefinedIdentifier(fn))

\* C26: arguments bind to parameters positionally: k of `k:a,b = a - b`
\* called as k(5,3) yields 2, m of `m:a,b = k(b,a)` called as m(5,3) yields
\* -2 and the self-recursive p of `p:a,b = a<=0 ? b : p(a-1,b+2)` called as
\* p(2,1) yields 5; every parameter index read during an evaluation is within
\* the argument list: no call ends in a panic, and every function in the
\* table is invoked, and invokes, with as many arguments as are declared.
C26_ArgumentsBindPositionally ==
  /\ ret.kind # "Panic"
  /\ CallYields(S_CallK, K, R(2))
  /\ CallYields(S_CallM, FnM, R(-2))
  /\ CallYields(S_CallP, FnP, R(5))
  /\ line = Whole(S_CallKOne) =>
       ret = RetErr(IF K \in DOMAIN functions
                      THEN InconsistentVariablesCount(K)
                    ELSE UndefinedIdentifier(K))
  /\ \A id \in DOMAIN functions :
       functions[id].lib = "" => WithinBounds(functions[id], functions[id].body)

\* m(5,3) was evaluated to -2 through the nested call k(3,5)
C26_NestedCallSwapped == Yielded(S_CallM, R(-2))

\* p(2,1) was evaluated to 5 through two calls of p by itself
C26_SelfCallAdvanced == Yielded(S_CallP, R(5))

\* a Real as the value table stores it: a fraction, an infinity or NaN
IsStoredNumber(v) ==
  /\ DOMAIN v = {1, 2}
  /\ v[1] \in Int
  /\ v[2] \in Int

\* C28: whatever statements came before, the right-hand side of a plain
\* assignment and a bare expression translate to a constant number, never
\* to a symbolic expression: assume_num does not panic, and every entry of
\* the value table holds a number.
C28_StatementsTranslateToNumbers ==
  [][~IsDefinition(TokensOf(line')) =>
       /\ ret'.kind # "Panic"
       /\ ret'.kind \in {"Assignment", "Expression"} =>
            \A k \in DOMAIN values' : IsStoredNumber(values'[k].value)]_vars

\* `a = a` was accepted after g was defined with the parameter a
C28_AssignedAfterDefinition ==
  /\ line = Whole(S_AssignAA)
  /\ ret.kind = "Assignment"
  /\ cur_variables = <<>>
  /\ G \in DOMAIN functions

\* how a call of action or accept ends when it does not panic
CallEnds == {"Shifted", "Rejected", "Some", "None"}

C29_PanicAfterRejection ==
  /\ ret.kind = "Panic"
  /\ Rejections(Held) > 0

\* the symbols on the right of rule r of Parser::GRAMMER
GrammarLen(r) ==
  CASE r \in {1, 2, 6, 18, 19, 21} -> 1
    [] r \in {8, 9} -> 2
    [] r \in {3, 5, 7, 10, 11, 12, 13, 14, 15, 20} -> 3
    [] r = 17 -> 4
    [] r \in {4, 16} -> 5
    [] OTHER -> 0

RECURSIVE Leaves(_)
\* the tokens at the leaves of a sequence of nodes, read left to right
Leaves(nodes) ==
  IF nodes = <<>> THEN <<>>
  ELSE (IF Head(nodes).leaf THEN <<Head(nodes).token>>
        ELSE Leaves(Head(nodes).children)) \o Leaves(Tail(nodes))

RECURSIVE Shaped(_)
\* every interior node of the tree has as many children as its rule has symbols
Shaped(node) ==
  node.leaf \/ (/\ Len(node.children) = GrammarLen(node.id)
                /\ \A i \in 1..Len(node.children) : Shaped(node.children[i]))

\* the step was the call of action that ended as a: it returned true for
\* the token, left stack and nodes equally long and the token as the last leaf
ShiftedBy(a, token) ==
  /\ a.ok
  /\ parser' = <<a.parser>>
  /\ Len(a.parser.stack) = Len(a.parser.nodes)
  /\ Leaves(a.parser.nodes) = Append(Leaves(Held.nodes), token)
  /\ \A i \in 1..Len(a.parser.nodes) : Shaped(a.parser.nodes[i])

\* accept returned the tree a.ast for the tokens fed
TreeOf(a, fed) ==
  /\ a.some
  /\ ~a.ast.leaf
  /\ a.ast.id \in {1, 2}
  /\ Shaped(a.ast)
  /\ Leaves(<<a.ast>>) = fed

\* C32: after every call of action() that returns true the state stack and
\* the node list have the same length and the leaves of the nodes are the
\* tokens fed so far, in order; a tree returned by accept() has one root
\* tagged 1 or 2, its leaves read left to right are exactly the tokens fed,
\* and every interior node tagged r has as many children as grammar rule r.
C32_TreeOfTokensFed ==
  [][/\ ret'.kind = "Shifted" =>
          \E token \in ParseTokens : ShiftedBy(action(Held, token), token)
     /\ ret'.kind = "Some" => TreeOf(accept(Held), Leaves(Held.nodes))]_vars

\* `x ( 1 , 1 )` was shifted: six tokens fed, four nodes, four states
C32_CallShifted ==
  /\ parser # <<>>
  /\ ret.kind = "Shifted"
  /\ Held.top = 36
  /\ Len(Held.nodes) = 4
  /\ Len(Held.stack) = 4
  /\ LeafCount(Held.nodes) = 6

\* accept returned a tree
C32_TreeReturned == ret.kind = "Some" /\ parser = <<>>

\* the body with the parameter x replaced by the digit a and y by b
Substituted(body, a, b) ==
  [i \in 1..Len(body) |->
     IF body[i] = "x" THEN a ELSE IF body[i] = "y" THEN b ELSE body[i]]

\* where both calls ended without error they left the same number
Agree(one, other) ==
  (one.ret.kind = "Expression" /\ other.ret.kind = "Expression") =>
    last_result(one.st) = last_result(other.st)

\* C31: folding and deferred evaluation agree: once `h:x,y = body` is
\* accepted, for every pair of arguments for which both end without error,
\* the call h(a,b), evaluated by calc_expr, yields the same number as the
\* body with x replaced by a and y by b, folded by translate_expression.
C31_FoldingAgreesWithEvaluation ==
  \A body \in FoldBodies :
    (line = Whole(DefH(body)) /\ ret.kind = "Assignment") =>
      \A a \in FoldArgs : \A b \in FoldArgs :
        Agree(Called(State, CallH(a, b)),
              Called(State, Substituted(body, a, b)))

\* h(2,1) was evaluated to 5 by the body that calls h itself, which is
\* what `2<=0 ? 1 : h(2-1,1+2)` folds to
C31_SelfCallEvaluated ==
  /\ Yielded(CallH("2", "1"), R(5))
  /\ Gave(Called(State, Substituted(S_BodySelf, "2", "1")), R(5))

====
